---- MODULE Spec2Model ----
(***************************************************************************)
(* A model of the nyaa-stremio addon: title resolution, torrent discovery  *)
(* and debrid conversion.  The repository holds two program variants:      *)
(*   "kitsu"   src/unnamed/part_000, lines 1-508  (addon version 3.0.0)    *)
(*   "anilist" src/server.js, lines 1-540         (addon version 2.0.0)    *)
(* A behaviour runs one of them; `variant` says which.                     *)
(*                                                                         *)
(* Strings are sequences of one-character strings, so that the regular     *)
(* expressions and the string concatenations of the code are computed.     *)
(***************************************************************************)
EXTENDS Integers, Sequences, FiniteSets, TLC

VARIABLES
    variant,    \* which program runs: "kitsu" or "anilist"
    now,        \* Date.now(), in milliseconds
    rdCache,    \* Map: cache key -> [url, timestamp]
    conv,       \* the getRDStream calls in flight, oldest first
    net,        \* the provider calls issued by the step just taken
    resp,       \* the HTTP response sent by the step just taken
    nyaaCache,  \* Map: cache key -> [data, timestamp]
    req,        \* the stream request being handled
    nameCache,  \* Map: cache key -> [names, timestamp]
    res,        \* the resolveAnimeNames calls in flight
    anilistDetailsCache,    \* Map: AniList id -> [data, timestamp]
    anilistSearchCache      \* Map: 'search:' + query -> [data, timestamp]

vars == <<variant, now, rdCache, conv, net, resp, nyaaCache, req, nameCache, res,
          anilistDetailsCache, anilistSearchCache>>

\* the variables of the torrent discovery, untouched by the debrid steps
searchVars == <<nyaaCache, req>>
\* the variables of the title resolver
nameVars == <<nameCache, res>>
\* the metadata caches of src/server.js
metaVars == <<anilistDetailsCache, anilistSearchCache>>

(***************************************************************************)
(* Bounds of the model.                                                    *)
(***************************************************************************)
MaxConv == 2        \* getRDStream calls in flight at once, in the debrid specification
MaxTicks == 3       \* clock ticks of a behaviour

(***************************************************************************)
(* Strings.                                                                *)
(***************************************************************************)
UpperCase == <<"A","B","C","D","E","F","G","H","I","J","K","L","M",
               "N","O","P","Q","R","S","T","U","V","W","X","Y","Z">>
LowerCase == <<"a","b","c","d","e","f","g","h","i","j","k","l","m",
               "n","o","p","q","r","s","t","u","v","w","x","y","z">>
Digits == {"0","1","2","3","4","5","6","7","8","9"}

UpperSet == {UpperCase[i] : i \in DOMAIN UpperCase}
LowerSet == {LowerCase[i] : i \in DOMAIN LowerCase}
IsUpper(c) == c \in UpperSet
IsLower(c) == c \in LowerSet
IsAlnum(c) == IsUpper(c) \/ IsLower(c) \/ c \in Digits

\* String.prototype.toLowerCase, per character and per string
LowerOf == [c \in UpperSet |->
              LowerCase[CHOOSE i \in DOMAIN UpperCase : UpperCase[i] = c]]
LowerChar(c) == IF c \in DOMAIN LowerOf THEN LowerOf[c] ELSE c
toLowerCase(s) == [i \in DOMAIN s |-> LowerChar(s[i])]

\* s has sub at position i (1-based)
MatchAt(s, sub, i) ==
    /\ i >= 1
    /\ i + Len(sub) - 1 <= Len(s)
    /\ \A j \in 1..Len(sub) : s[i + j - 1] = sub[j]

\* String.prototype.includes
includes(s, sub) == \E i \in 1..(Len(s) + 1) : MatchAt(s, sub, i)

\* the JavaScript values undefined and null, where a string is expected:
\* one-element sequences that no string of characters equals
Undefined == <<"undefined">>
Null == <<"null">>

(***************************************************************************)
(* More of the string library: the String methods and the regular          *)
(* expressions the code uses, each computed on the characters.             *)
(***************************************************************************)
IsSpace(c) == c \in {" ", "\t", "\n"}
IsWordChar(c) == IsAlnum(c) \/ c = "_"                 \* \w

\* the first index >= i at which s has a character outside the set cs, or Len(s)+1
RECURSIVE SkipWhile(_, _, _)
SkipWhile(s, i, cs) == IF i <= Len(s) /\ s[i] \in cs THEN SkipWhile(s, i + 1, cs) ELSE i

\* String.prototype.trim
RECURSIVE TrimLeft(_)
TrimLeft(s) == IF s # <<>> /\ IsSpace(Head(s)) THEN TrimLeft(Tail(s)) ELSE s
RECURSIVE TrimRight(_)
TrimRight(s) == IF s # <<>> /\ IsSpace(s[Len(s)]) THEN TrimRight(SubSeq(s, 1, Len(s) - 1)) ELSE s
trim(s) == TrimRight(TrimLeft(s))

\* s.split(sep)[0] for a one-character separator: what precedes the first sep
splitFirst(s, sep) ==
    IF \E i \in DOMAIN s : s[i] = sep
    THEN SubSeq(s, 1, (CHOOSE i \in DOMAIN s : s[i] = sep /\ \A j \in 1..(i-1) : s[j] # sep) - 1)
    ELSE s

\* s.split(sep) for a one-character separator
RECURSIVE split(_, _)
split(s, sep) ==
    IF \E i \in DOMAIN s : s[i] = sep
    THEN <<splitFirst(s, sep)>> \o split(SubSeq(s, Len(splitFirst(s, sep)) + 2, Len(s)), sep)
    ELSE <<s>>

\* s.startsWith(prefix)
startsWith(s, prefix) == MatchAt(s, prefix, 1)

DigitChars == <<"0","1","2","3","4","5","6","7","8","9">>
DigitValue(c) == (CHOOSE i \in DOMAIN DigitChars : DigitChars[i] = c) - 1

\* String(n) for an integer n >= 0
RECURSIVE String(_)
String(n) == IF n < 10 THEN <<DigitChars[n + 1]>> ELSE String(n \div 10) \o <<DigitChars[(n % 10) + 1]>>

\* s.padStart(2, '0')
padStart2(s) == IF Len(s) < 2 THEN [i \in 1..(2 - Len(s)) |-> "0"] \o s ELSE s

\* parseInt(s): <<n>> for the number s begins with, <<>> for NaN
RECURSIVE DigitsValue(_, _)
DigitsValue(s, acc) == IF s = <<>> THEN acc ELSE DigitsValue(Tail(s), acc * 10 + DigitValue(Head(s)))
\* parseInt(s): white space is skipped, a sign is read, then the decimal digits
parseInt(s) ==
    LET t == TrimLeft(s)
        signed == t # <<>> /\ t[1] \in {"-", "+"}
        u == IF signed THEN Tail(t) ELSE t
        e == SkipWhile(u, 1, Digits)
        n == DigitsValue(SubSeq(u, 1, e - 1), 0)
    IN IF e = 1 THEN <<>>
       ELSE IF signed /\ t[1] = "-" THEN <<0 - n>> ELSE <<n>>

\* parseInt(s) || 1 : NaN and 0 give 1
parseIntOr1(s) == IF parseInt(s) = <<>> \/ parseInt(s) = <<0>> THEN 1 ELSE parseInt(s)[1]

\* s.replace(/<word> \d+/i, '') : the first "<word> " followed by digits goes,
\* with all the digits that follow (word is given in lower case)
removeWordNumber(s, word) ==
    LET l == toLowerCase(s)
        hits == {i \in DOMAIN s : MatchAt(l, word \o <<" ">>, i)
                                  /\ i + Len(word) + 1 <= Len(s)
                                  /\ s[i + Len(word) + 1] \in Digits}
    IN IF hits = {} THEN s
       ELSE LET i == CHOOSE i \in hits : \A j \in hits : i <= j
                e == SkipWhile(s, i + Len(word) + 1, Digits)
            IN SubSeq(s, 1, i - 1) \o SubSeq(s, e, Len(s))

\* s.replace(/<literal>/i, '') : the first occurrence goes (literal in lower case)
removeFirst(s, literal) ==
    LET l == toLowerCase(s)
        hits == {i \in DOMAIN s : MatchAt(l, literal, i)}
    IN IF hits = {} THEN s
       ELSE LET i == CHOOSE i \in hits : \A j \in hits : i <= j
            IN SubSeq(s, 1, i - 1) \o SubSeq(s, i + Len(literal), Len(s))

\* s.replace(/\([^)]*\)/g, '') : every "(" up to the next ")" goes
RECURSIVE removeParens(_)
removeParens(s) ==
    IF s = <<>> THEN <<>>
    ELSE IF Head(s) = "(" /\ \E j \in 2..Len(s) : s[j] = ")"
    THEN removeParens(SubSeq(s, (CHOOSE j \in 2..Len(s) : s[j] = ")" /\ \A k \in 2..(j-1) : s[k] # ")") + 1,
                             Len(s)))
    ELSE <<Head(s)>> \o removeParens(Tail(s))

\* s.replace(/:/g, '')
removeColons(s) == SelectSeq(s, LAMBDA c : c # ":")

\* s.replace(/[^\w\s]/g, ' ')
punctuationToSpace(s) == [i \in DOMAIN s |-> IF IsWordChar(s[i]) \/ IsSpace(s[i]) THEN s[i] ELSE " "]

\* s.replace(/\s+/g, ' ')
RECURSIVE collapseSpaces(_)
collapseSpaces(s) ==
    IF s = <<>> THEN <<>>
    ELSE IF IsSpace(Head(s))
    THEN <<" ">> \o collapseSpaces(SubSeq(s, SkipWhile(s, 1, {" ", "\t", "\n"}), Len(s)))
    ELSE <<Head(s)>> \o collapseSpaces(Tail(s))

\* [...new Set(list)] : the first occurrence of each element, in order
RECURSIVE unique(_)
unique(list) ==
    IF list = <<>> THEN <<>>
    ELSE LET init == unique(SubSeq(list, 1, Len(list) - 1))
             last == list[Len(list)]
         IN IF \E i \in DOMAIN init : init[i] = last THEN init ELSE Append(init, last)

\* list.flatMap(f) and the concatenation of a list of lists
RECURSIVE Flatten(_)
Flatten(ls) == IF ls = <<>> THEN <<>> ELSE Head(ls) \o Flatten(Tail(ls))

(***************************************************************************)
(* Maps (JavaScript Map): a function whose domain is the set of keys.      *)
(***************************************************************************)
EmptyMap == <<>>
MapHas(m, k) == k \in DOMAIN m
NoEntry == [absent |-> TRUE]            \* Map.get of a key the map does not hold
MapGet(m, k) == IF k \in DOMAIN m THEN m[k] ELSE NoEntry
MapSet(m, k, v) == [x \in (DOMAIN m) \cup {k} |-> IF x = k THEN v ELSE m[x]]
MapDelete(m, ks) == [x \in (DOMAIN m) \ ks |-> m[x]]

(***************************************************************************)
(* Caches.                                                                 *)
(***************************************************************************)
NAME_CACHE_TTL == 24 * 60 * 60 * 1000
NYAA_CACHE_TTL == 30 * 60 * 1000
ANILIST_DETAILS_TTL == 30 * 60 * 1000
ANILIST_CACHE_TTL == 10 * 60 * 1000
RD_CACHE_TTL == 60 * 60 * 1000

\* a mutant of isCacheValid: no entry is ever valid
isCacheValid_never(entry, ttl) == FALSE

\* a mutant of isCacheValid: an entry is valid up to and at the age of the TTL
isCacheValid_inclusive(entry, ttl) ==
    /\ entry # NoEntry
    /\ now - entry.timestamp <= ttl

\* isCacheValid(entry, ttl): entry && Date.now() - entry.timestamp < ttl
isCacheValid(entry, ttl) ==
    /\ entry # NoEntry
    /\ now - entry.timestamp < ttl

(***************************************************************************)
(* Values of the debrid model.                                             *)
(***************************************************************************)
MagnetA == <<"?","b","t","i","h",":","a","1">>
\* the magnets /rd/ requests are made for
RdMagnets == {MagnetA}

KeyEmpty == <<>>                        \* '' : a falsy string
KeyNord == <<"n","o","r","d">>          \* the sentinel 'nord'
KeyK1 == <<"k","1">>                    \* a RealDebrid API key
ApiKeys == {Undefined, KeyEmpty, KeyNord, KeyK1}

Urls == {<<"u","1">>, <<"u","2">>}                    \* download URLs the provider hands out

BASE_URL == <<"h","t","t","p",":","/","/","h">>

\* JavaScript truthiness of a string-or-undefined value
Truthy(v) == v # Undefined /\ v # Null /\ v # <<>>

\* encodeURIComponent: the unreserved characters stay, the others are escaped
Unreserved(c) == IsAlnum(c) \/ c \in {"-", "_", ".", "!", "~", "*", "'", "(", ")"}
EscapeChar(c) ==
    CASE c = "?" -> <<"%","3","F">>
      [] c = ":" -> <<"%","3","A">>
      [] c = "=" -> <<"%","3","D">>
      [] c = "&" -> <<"%","2","6">>
      [] c = "/" -> <<"%","2","F">>
      [] c = "%" -> <<"%","2","5">>
      [] c = " " -> <<"%","2","0">>
      [] c = "[" -> <<"%","5","B">>
      [] c = "]" -> <<"%","5","D">>
      [] OTHER   -> <<"%","?","?">>
RECURSIVE encodeURIComponent(_)
encodeURIComponent(s) ==
    IF s = <<>> THEN <<>>
    ELSE (IF Unreserved(Head(s)) THEN <<Head(s)>> ELSE EscapeChar(Head(s)))
         \o encodeURIComponent(Tail(s))

\* the conversion-cache key of getRDStream / preCacheRD
\*   kitsu:   `rd:${magnet}_${apiKey}`      anilist: `${magnet}_${apiKey}`
rdCacheKey(magnet, apiKey) ==
    (IF variant = "kitsu" THEN <<"r","d",":">> ELSE <<>>) \o magnet \o <<"_">> \o apiKey

(***************************************************************************)
(* getRDStream.  conv holds the calls in flight; pc is the await a call is *)
(* parked at:                                                              *)
(*   "add"        addMagnet POST in flight                                 *)
(*   "info"       torrents/info GET in flight                              *)
(*   "select"     selectFiles POST in flight                               *)
(*   "poll"       the 2 s timer of poll i running, then its torrents/info  *)
(*                GET in flight                                            *)
(*   "unrestrict" the unrestrict/link POST of poll i in flight             *)
(***************************************************************************)
POLL_ATTEMPTS == 10

Remove(s, n) == SubSeq(s, 1, n - 1) \o SubSeq(s, n + 1, Len(s))

\* the provider calls one getRDStream call has issued so far, by kind; a poll
\* is the torrents/info GET inside the loop
NoneSent == [addMagnet |-> 0, info |-> 0, selectFiles |-> 0, poll |-> 0]

\* the names of the calls in flight when at most MaxConv are
CallNames == 1..MaxConv

\* the k-th name no call in flight carries: a call keeps its name from its
\* start to its return, whatever its place in conv
FreeName(k) ==
    LET free == (1..(Len(conv) + k)) \ {conv[n].name : n \in DOMAIN conv}
    IN CHOOSE t \in free : Cardinality({u \in free : u < t}) = k - 1

\* a call of getRDStream past its head: addMagnet has been posted
NewCall(magnet, key, origin, name) ==
    [pc |-> "add", magnet |-> magnet, key |-> key, i |-> 0, origin |-> origin,
     name |-> name, sent |-> [NoneSent EXCEPT !.addMagnet = 1]]

NoResp ==
    [kind |-> "none", magnet |-> <<>>, key |-> <<>>, ret |-> Undefined, streams |-> <<>>,
     metas |-> <<>>,
     result |-> [names |-> <<>>, year |-> <<>>]]

Call(api, magnet, key) == [api |-> api, magnet |-> magnet, key |-> key]

\* what the caller of a finished getRDStream does with the value it returned:
\* the /rd/ route redirects or answers 500, preCacheRD drops it
Answer(origin, magnet, key, ret) ==
    [NoResp EXCEPT !.kind = IF origin = "precache" THEN "dropped"
                            ELSE IF ret # Null THEN "redirect" ELSE "error500",
                   !.magnet = magnet, !.key = key, !.ret = ret]

\* a mutant of getRDStream_entry: a valid cache entry is not looked at
getRDStream_entry_noCache(magnet, apiKey) ==
    IF ~Truthy(apiKey) \/ apiKey = KeyNord THEN [started |-> FALSE, ret |-> Null]
    ELSE [started |-> TRUE, ret |-> Undefined]

\* the synchronous head of getRDStream, up to its first await:
\* no key -> null; a valid cache entry -> its url; otherwise addMagnet is posted
getRDStream_entry(magnet, apiKey) ==
    IF ~Truthy(apiKey) \/ apiKey = KeyNord THEN [started |-> FALSE, ret |-> Null]
    ELSE IF isCacheValid(MapGet(rdCache, rdCacheKey(magnet, apiKey)), RD_CACHE_TTL)
    THEN [started |-> FALSE, ret |-> MapGet(rdCache, rdCacheKey(magnet, apiKey)).url]
    ELSE [started |-> TRUE, ret |-> Undefined]

\* the call at index n returns ret to its caller
Return(n, ret) ==
    /\ conv' = Remove(conv, n)
    /\ resp' = Answer(conv[n].origin, conv[n].magnet, conv[n].key, ret)
    /\ net' = {}

\* the call at index n goes on to its next await, issuing provider call api
Proceed(n, pc, i, api) ==
    /\ conv' = [conv EXCEPT ![n].pc = pc, ![n].i = i,
                            ![n].sent = IF pc = "poll" THEN [@ EXCEPT !.poll = @ + 1]
                                        ELSE IF api = "unrestrict" THEN @
                                        ELSE [@ EXCEPT ![api] = @ + 1]]
    /\ resp' = NoResp
    /\ net' = {Call(api, conv[n].magnet, conv[n].key)}

\* await new Promise(r => setTimeout(r, 2000)): the pause before every poll
POLL_INTERVAL == 2000

\* the pauses a call in flight has sat through: poll i is issued after pause i,
\* the unrestrict of poll i after the answer of poll i
timersFired(call) ==
    IF call.pc = "poll" THEN call.i
    ELSE IF call.pc = "unrestrict" THEN call.i + 1
    ELSE 0

\* the time, in ms, a call in flight has been running for at the least; its
\* caller has been waiting for as long, the route answering only when
\* getRDStream returns
minElapsed(call) == POLL_INTERVAL * timersFired(call)

\* GET /:rdKey/rd/:magnet : the route calls getRDStream(magnet, rdKey)
RdRoute(magnet, rdKey) ==
    /\ Len(conv) < MaxConv
    /\ LET e == getRDStream_entry(magnet, rdKey) IN
         IF e.started
         THEN /\ conv' = Append(conv, NewCall(magnet, rdKey, "route", FreeName(1)))
              /\ net' = {Call("addMagnet", magnet, rdKey)}
              /\ resp' = NoResp
         ELSE /\ conv' = conv
              /\ net' = {}
              /\ resp' = Answer("route", magnet, rdKey, e.ret)
    /\ UNCHANGED <<variant, metaVars, now, rdCache, searchVars, nameVars>>

\* the addMagnet POST answers: an id, no id, or an error (HTTP error, timeout)
AddMagnetReply(n) ==
    /\ conv[n].pc = "add"
    /\ \E outcome \in {"id", "noid", "error"} :
         IF outcome = "id" THEN Proceed(n, "info", 0, "info") ELSE Return(n, Null)
    /\ UNCHANGED <<variant, metaVars, now, rdCache, searchVars, nameVars>>

\* the torrents/info GET answers: files, no files, or an error
InfoReply(n) ==
    /\ conv[n].pc = "info"
    /\ \E outcome \in {"files", "nofiles", "error"} :
         IF outcome = "files" THEN Proceed(n, "select", 0, "selectFiles") ELSE Return(n, Null)
    /\ UNCHANGED <<variant, metaVars, now, rdCache, searchVars, nameVars>>

\* the selectFiles POST answers; the loop starts with poll 0 (2 s timer, then GET)
SelectReply(n) ==
    /\ conv[n].pc = "select"
    /\ \E outcome \in {"ok", "error"} :
         IF outcome = "ok" THEN Proceed(n, "poll", 0, "info") ELSE Return(n, Null)
    /\ UNCHANGED <<variant, metaVars, now, rdCache, searchVars, nameVars>>

\* a mutant of NextPoll: the loop runs for (let i = 0; i <= 10; i++)
NextPoll_oneMore(n) ==
    IF conv[n].i + 1 <= POLL_ATTEMPTS
    THEN Proceed(n, "poll", conv[n].i + 1, "info")
    ELSE Return(n, Null)

\* the end of one loop iteration without a url: next iteration, or return null
NextPoll(n) ==
    IF conv[n].i + 1 < POLL_ATTEMPTS
    THEN Proceed(n, "poll", conv[n].i + 1, "info")
    ELSE Return(n, Null)

\* the poll GET answers: a link, no link yet, or an error
PollReply(n) ==
    /\ conv[n].pc = "poll"
    /\ \E outcome \in {"link", "nolink", "error"} :
         CASE outcome = "link"   -> Proceed(n, "unrestrict", conv[n].i, "unrestrict")
           [] outcome = "nolink" -> NextPoll(n)
           [] outcome = "error"  -> Return(n, Null)
    /\ UNCHANGED <<variant, metaVars, now, rdCache, searchVars, nameVars>>

\* a mutant of UnrestrictReply: a failure is cached too, as an entry without a url
UnrestrictReply_cachesFailure(n) ==
    /\ conv[n].pc = "unrestrict"
    /\ \/ \E url \in Urls :
            /\ rdCache' = MapSet(rdCache, rdCacheKey(conv[n].magnet, conv[n].key),
                                 [url |-> url, timestamp |-> now])
            /\ Return(n, url)
       \/ /\ NextPoll(n)
          /\ rdCache' = rdCache
       \/ /\ Return(n, Null)
          /\ rdCache' = MapSet(rdCache, rdCacheKey(conv[n].magnet, conv[n].key),
                               [url |-> Null, timestamp |-> now])
    /\ UNCHANGED <<variant, metaVars, now, searchVars, nameVars>>

\* the unrestrict POST answers: a download url (cached and returned), none, or an error
UnrestrictReply(n) ==
    /\ conv[n].pc = "unrestrict"
    /\ \/ \E url \in Urls :
            /\ rdCache' = MapSet(rdCache, rdCacheKey(conv[n].magnet, conv[n].key),
                                 [url |-> url, timestamp |-> now])
            /\ Return(n, url)
       \/ /\ NextPoll(n)
          /\ rdCache' = rdCache
       \/ /\ Return(n, Null)
          /\ rdCache' = rdCache
    /\ UNCHANGED <<variant, metaVars, now, searchVars, nameVars>>

(***************************************************************************)
(* Torrent records and the stream candidates built from them.              *)
(* A torrent is [name, magnet, seeders, filesize]; seeders is <<n>>, or    *)
(* <<>> when the index gave none (t.seeders undefined).                    *)
(***************************************************************************)
Torrent(name, magnet, seeders) ==
    [name |-> name, magnet |-> magnet, seeders |-> seeders, filesize |-> Undefined]

\* t.seeders || 0
SeedersOf(t) == IF t.seeders = <<>> THEN 0 ELSE t.seeders[1]

\* Array.prototype.sort (stable), the comparator given by its values on the
\* elements: c[j, i] is cmp(s[j], s[i]).  The element at index i goes behind every
\* element that compares below it, and behind the equal ones before it
Sort(s, c) ==
    LET rank(i) == Cardinality({j \in DOMAIN s : c[j, i] < 0 \/ (c[j, i] = 0 /\ j < i)}) + 1
    IN [p \in DOMAIN s |-> s[CHOOSE i \in DOMAIN s : rank(i) = p]]

\* Array.prototype.slice(0, n)
SliceTo(s, n) == SubSeq(s, 1, IF Len(s) < n THEN Len(s) ELSE n)

\* (a, b) => (b.seeders || 0) - (a.seeders || 0)
bySeeders(a, b) == SeedersOf(b) - SeedersOf(a)
sortBySeeders(s) == Sort(s, [j \in DOMAIN s, i \in DOMAIN s |-> bySeeders(s[j], s[i])])

GROUP_PRIORITY == << <<"S","u","b","s","P","l","e","a","s","e">>,
                     <<"E","r","a","i","-","r","a","w","s">>,
                     <<"E","M","B","E","R">>,
                     <<"A","S","W">> >>

GroupsLower == [i \in DOMAIN GROUP_PRIORITY |-> toLowerCase(GROUP_PRIORITY[i])]

\* getGroupPriority: the index of the first listed group the name includes
\* (case-insensitive), or GROUP_PRIORITY.length (0-based, as in the code)
getGroupPriority(torrentName) ==
    LET lower == toLowerCase(torrentName)
        hits == {i \in DOMAIN GROUP_PRIORITY : includes(lower, GroupsLower[i])}
    IN IF hits = {} THEN Len(GROUP_PRIORITY)
       ELSE (CHOOSE i \in hits : \A j \in hits : i <= j) - 1

\* is1080p: /1080p/i
is1080p(torrentName) == includes(toLowerCase(torrentName), <<"1","0","8","0","p">>)

\* the comparator of handleStreamRequest (kitsu): 1080p first, then the
\* preferred group, then seeders descending
rankCompare(a, b) ==
    LET a1080 == IF is1080p(a.name) THEN 0 ELSE 1
        b1080 == IF is1080p(b.name) THEN 0 ELSE 1
    IN IF a1080 # b1080 THEN a1080 - b1080
       ELSE IF getGroupPriority(a.name) # getGroupPriority(b.name)
       THEN getGroupPriority(a.name) - getGroupPriority(b.name)
       ELSE SeedersOf(b) - SeedersOf(a)

\* /S\d{2}|Season\s*\d/i
RECURSIVE SkipSpaces(_, _)
SkipSpaces(s, i) == IF i <= Len(s) /\ s[i] = " " THEN SkipSpaces(s, i + 1) ELSE i
hasSeasonTag(name) ==
    LET l == toLowerCase(name) IN
    \E i \in DOMAIN l :
       \/ l[i] = "s" /\ i + 2 <= Len(l) /\ l[i+1] \in Digits /\ l[i+2] \in Digits
       \/ /\ MatchAt(l, <<"s","e","a","s","o","n">>, i)
          /\ LET j == SkipSpaces(l, i + 6) IN j <= Len(l) /\ l[j] \in Digits

\* a mutant of hasRD: the sentinel 'nord' is taken for an account key
hasRD_sentinelAsKey(rdKey) == Truthy(rdKey)

\* the hasRD test of handleStreamRequest: rdKey && rdKey !== 'nord'
hasRD(rdKey) == Truthy(rdKey) /\ rdKey # KeyNord

\* the url of a RealDebrid candidate: `${BASE_URL}/${rdKey}/rd/${encodeURIComponent(t.magnet)}`
rdUrl(rdKey, magnet) ==
    BASE_URL \o <<"/">> \o rdKey \o <<"/","r","d","/">> \o encodeURIComponent(magnet)

\* one stream candidate.  `title` keeps the parts the title string is made of,
\* `name` the label; ready is the "✅" of the anilist variant
Stream(label, t, url, ready) ==
    [name |-> label, url |-> url, ready |-> ready,
     title |-> [name |-> t.name, seasonHint |-> ~hasSeasonTag(t.name),
                seeders |-> SeedersOf(t), filesize |-> t.filesize]]

\* the placeholder candidates: which is "names" (no name resolved) or "torrents"
Placeholder(which) ==
    [name |-> "placeholder", url |-> <<"h","t","t","p","s",":","/","/","n","y","a","a",".","s","i">>,
     ready |-> FALSE, title |-> [which |-> which]]

HasMagnet(t) == Truthy(t.magnet)
HasMagnetAndSeeders(t) == Truthy(t.magnet) /\ SeedersOf(t) > 0

\* handleStreamRequest (kitsu) from the search result on: the placeholder when
\* nothing was found, else the candidates, filtered, ranked and mapped
streamsKitsu(torrents, rdKey) ==
    IF torrents = <<>> THEN << Placeholder("torrents") >>
    ELSE LET kept == SelectSeq(torrents, HasMagnetAndSeeders)
             sorted == Sort(kept, [j \in DOMAIN kept, i \in DOMAIN kept |->
                                     rankCompare(kept[j], kept[i])])
         IN [i \in DOMAIN sorted |->
               IF hasRD(rdKey)
               THEN Stream("RealDebrid", sorted[i], rdUrl(rdKey, sorted[i].magnet), FALSE)
               ELSE Stream("Nyaa Magnet", sorted[i], sorted[i].magnet, FALSE)]

STREAM_CAP == 10

\* the torrents handleStreamRequest (anilist) maps: torrents.filter(t => t.magnet).slice(0, 10)
shownAnilist(torrents) == SliceTo(SelectSeq(torrents, HasMagnet), STREAM_CAP)

\* preCacheRD(magnet, apiKey) starts a conversion unless there is no account
\* or the cache holds a valid entry
preCacheRD_starts(magnet, apiKey) ==
    /\ Truthy(apiKey) /\ apiKey # KeyNord
    /\ ~isCacheValid(MapGet(rdCache, rdCacheKey(magnet, apiKey)), RD_CACHE_TTL)
    /\ getRDStream_entry(magnet, apiKey).started

\* handleStreamRequest (anilist) from the search result on
streamsAnilist(torrents, rdKey) ==
    IF torrents = <<>> THEN << Placeholder("torrents") >>
    ELSE LET shown == shownAnilist(torrents)
         IN [i \in DOMAIN shown |->
               IF hasRD(rdKey)
               THEN Stream("RealDebrid", shown[i], rdUrl(rdKey, shown[i].magnet),
                           isCacheValid(MapGet(rdCache, rdCacheKey(shown[i].magnet, rdKey)),
                                        RD_CACHE_TTL))
               ELSE Stream("Magnet", shown[i], shown[i].magnet, FALSE)]

(***************************************************************************)
(* Torrent discovery: query variants, the merge by infoHash, the episode   *)
(* filter and the sort.  An optional number (episode, season) is <<n>>, or *)
(* <<>> for null.                                                          *)
(***************************************************************************)
SeasonWord == <<"s","e","a","s","o","n">>
PartWord == <<"p","a","r","t">>

\* the `clean` of buildSearchVariants: season and part tags, parentheses and colons go
\* (/2nd Season|3rd Season/i in part_000 removes the first of the two that occurs)
cleanKitsu(n) ==
    LET a == removeWordNumber(removeWordNumber(n, SeasonWord), PartWord)
        l == toLowerCase(a)
        second == {i \in DOMAIN a : MatchAt(l, <<"2","n","d"," ">> \o SeasonWord, i)}
        third == {i \in DOMAIN a : MatchAt(l, <<"3","r","d"," ">> \o SeasonWord, i)}
        hits == second \cup third
        b == IF hits = {} THEN a
             ELSE LET i == CHOOSE i \in hits : \A j \in hits : i <= j
                  IN SubSeq(a, 1, i - 1) \o SubSeq(a, i + 10, Len(a))
    IN trim(removeColons(removeParens(b)))

cleanAnilist(n) ==
    trim(removeColons(removeParens(
        removeFirst(removeFirst(removeWordNumber(removeWordNumber(n, SeasonWord), PartWord),
                                <<"2","n","d"," ">> \o SeasonWord),
                    <<"3","r","d"," ">> \o SeasonWord))))

\* unique.flatMap(n => [`${n} ${epPad}`, `${n} ${epRaw}`]), or the base list for no episode
\* a mutant of withEpisode: only the zero-padded query is built
withEpisode_padOnly(base, episode) ==
    IF episode # <<>>
    THEN [i \in DOMAIN base |-> base[i] \o <<" ">> \o padStart2(String(episode[1]))]
    ELSE base

\* if (episode != null) return base.flatMap(n => [`${n} ${epPad}`, `${n} ${epRaw}`]);
\* return base;
withEpisode(base, episode) ==
    IF episode # <<>>
    THEN Flatten([i \in DOMAIN base |->
                    << base[i] \o <<" ">> \o padStart2(String(episode[1])),
                       base[i] \o <<" ">> \o String(episode[1]) >>])
    ELSE base

\* buildSearchVariants of part_000:189-203
buildSearchVariantsKitsu(animeName, episode) ==
    withEpisode(unique(SelectSeq(<<animeName, cleanKitsu(animeName)>>, LAMBDA n : n # <<>>)),
                episode)

\* buildSearchVariants of server.js:120-141
buildSearchVariantsAnilist(animeName, episode) ==
    withEpisode(unique(SelectSeq(<< animeName,
                                    cleanAnilist(animeName),
                                    trim(splitFirst(animeName, ":")),
                                    trim(splitFirst(animeName, "-")),
                                    trim(collapseSpaces(punctuationToSpace(animeName))) >>,
                                 LAMBDA n : n # <<>>)),
                episode)

\* buildSearchVariants of the file that runs
buildSearchVariants(animeName, episode) ==
    IF variant = "kitsu" THEN buildSearchVariantsKitsu(animeName, episode)
    ELSE buildSearchVariantsAnilist(animeName, episode)

\* the queries one search issues: part_000:214-216 adds the name-only variants
searchQueries(animeName, episode) ==
    IF variant = "kitsu"
    THEN unique(buildSearchVariantsKitsu(animeName, episode)
                \o buildSearchVariantsKitsu(animeName, <<>>))
    ELSE buildSearchVariantsAnilist(animeName, episode)

Btih == <<"b","t","i","h",":">>

\* t.magnet?.match(/btih:([a-zA-Z0-9]+)/i)?.[1]?.toLowerCase() : <<>> when there is none
extractHash(magnet) ==
    IF magnet = Undefined THEN <<>>
    ELSE LET l == toLowerCase(magnet)
             hits == {i \in DOMAIN magnet : MatchAt(l, Btih, i) /\ i + 5 <= Len(magnet)
                                            /\ IsAlnum(magnet[i + 5])}
         IN IF hits = {} THEN <<>>
            ELSE LET i == CHOOSE i \in hits : \A j \in hits : i <= j
                     e == SkipWhile(magnet, i + 5, UpperSet \cup LowerSet \cup Digits)
                 IN toLowerCase(SubSeq(magnet, i + 5, e - 1))

\* a mutant of dedupByHash: hashes are compared as written, not lower-cased
RECURSIVE dedupByHash_caseSensitive(_)
dedupByHash_caseSensitive(records) ==
    IF records = <<>> THEN <<>>
    ELSE LET init == dedupByHash_caseSensitive(SubSeq(records, 1, Len(records) - 1))
             t == records[Len(records)]
             raw(m) == IF extractHash(m) = <<>> THEN <<>>
                       ELSE SubSeq(m, Len(m) - Len(extractHash(m)) + 1, Len(m))
         IN IF extractHash(t.magnet) # <<>>
               /\ ~\E i \in DOMAIN init : raw(init[i].magnet) = raw(t.magnet)
            THEN Append(init, t) ELSE init

\* the merge loop: a record is kept when it has a hash no earlier record had
\*   if (hash && !seenHashes.has(hash)) { seenHashes.add(hash); allTorrents.push(t); }
RECURSIVE dedupByHash(_)
dedupByHash(records) ==
    IF records = <<>> THEN <<>>
    ELSE LET init == dedupByHash(SubSeq(records, 1, Len(records) - 1))
             t == records[Len(records)]
         IN IF extractHash(t.magnet) # <<>>
               /\ ~\E i \in DOMAIN init : extractHash(init[i].magnet) = extractHash(t.magnet)
            THEN Append(init, t) ELSE init

\* a mutant of episodeMatches: the pattern without its e(?:p(?:isode)?)?\s* prefix
episodeMatches_noMarker(name, ep) ==
    LET l == toLowerCase(name)
        d == String(ep)
        afterZeros(q) == q..SkipWhile(l, q, {"0"})
        suffixOk(r) == r = Len(l) + 1 \/ (r <= Len(l) /\ l[r] \notin Digits)
    IN \E p \in DOMAIN l :
          /\ l[p] \in {"-", "_", "[", "("} \/ IsSpace(l[p])
          /\ \E z \in afterZeros(p + 1) : MatchAt(l, d, z) /\ suffixOk(z + Len(d))

\* the episode pattern, tested on the name:
\*   (?:[-_\s\[\(]|e(?:p(?:isode)?)?\s*)0*${ep}(?:[\s\-_\]\)v]|$|\D)   with flag i
episodeMatches(name, ep) ==
    LET l == toLowerCase(name)
        d == String(ep)
        \* the positions right after a prefix that starts at p
        afterPrefix(p) ==
            (IF l[p] \in {"-", "_", "[", "("} \/ IsSpace(l[p]) THEN {p + 1} ELSE {})
            \cup
            (IF l[p] = "e"
             THEN LET q == IF MatchAt(l, <<"p","i","s","o","d","e">>, p + 1) THEN {p + 1, p + 2, p + 7}
                           ELSE IF MatchAt(l, <<"p">>, p + 1) THEN {p + 1, p + 2}
                           ELSE {p + 1}
                  IN UNION {{r \in q0..SkipWhile(l, q0, {" ", "\t", "\n"}) : TRUE} : q0 \in q}
             ELSE {})
        \* after 0* from q
        afterZeros(q) == q..SkipWhile(l, q, {"0"})
        suffixOk(r) == r = Len(l) + 1 \/ (r <= Len(l) /\ l[r] \notin Digits)
    IN \E p \in DOMAIN l : \E q \in afterPrefix(p) : \E z \in afterZeros(q) :
          MatchAt(l, d, z) /\ suffixOk(z + Len(d))

\* the episode filter of the search: only when an episode was asked for
episodeFilter(records, episode) ==
    IF episode # <<>>
    THEN SelectSeq(records, LAMBDA t : episodeMatches(t.name, episode[1]))
    ELSE records

\* the season filter of searchNyaaForName, part_000:245-263.  For every s in 1..20
\* other than the season asked for, the loop evaluates
\*     wrongSeasons.push(...).filter(Boolean)
\* push returns the new length, a number, which has no filter method: a TypeError
\* is thrown at the first such s.
seasonFilterThrows(season) == season # <<>> /\ \E s \in 1..20 : s # season[1]

\* what one query came to: the records the index answered with, or a failure
Fulfilled(records) == [ok |-> TRUE, records |-> records]
Failed == [ok |-> FALSE, records |-> <<>>]

\* si.searchAll(q, ...).catch(() => []): a failed query settles as the empty list
settled(outcome) == IF outcome.ok THEN outcome.records ELSE <<>>

\* the order the queries of one search complete in: the first to the last, or
\* the last to the first
CompletionOrder(n, reversed) == [k \in 1..n |-> IF reversed THEN n + 1 - k ELSE k]

\* a mutant of allSettled: the outcomes stand in the order of their arrival
allSettled_byArrival(responses, order) == [k \in DOMAIN order |-> responses[order[k]]]

\* await Promise.allSettled(queries): the outcome of query j is put at index j
\* as it arrives, and the array is handed over when the last one has arrived
allSettled(responses, order) ==
    LET RECURSIVE settleInto(_, _)
        settleInto(values, k) ==
            IF k > Len(order) THEN values
            ELSE settleInto([values EXCEPT ![order[k]] = responses[order[k]]], k + 1)
    IN settleInto([j \in DOMAIN responses |-> Failed], 1)

\* the records the merge loop runs over, in query order
fulfilledRecords(responses) == Flatten([j \in DOMAIN responses |-> settled(responses[j])])

\* a search, from the settled queries on: [threw, data, merged].  `responses` is
\* one outcome per query, in query order
searchResult(responses, episode, season) ==
    LET allTorrents == dedupByHash(fulfilledRecords(responses))
        filtered == episodeFilter(allTorrents, episode)
    IN [threw |-> variant = "kitsu" /\ seasonFilterThrows(season),
        merged |-> allTorrents,
        data |-> sortBySeeders(filtered)]

\* the search-cache key: `nyaa:${animeName}:${episode}:s${season}` (kitsu),
\* `${animeName}:${episode}` (anilist)
OptString(n) == IF n = <<>> THEN <<"n","u","l","l">> ELSE String(n[1])
nyaaCacheKey(animeName, episode, season) ==
    IF variant = "kitsu"
    THEN <<"n","y","a","a",":">> \o animeName \o <<":">> \o OptString(episode)
         \o <<":","s">> \o OptString(season)
    ELSE animeName \o <<":">> \o OptString(episode)

(***************************************************************************)
(* The debrid specification: stream listings, /rd/ requests, the provider's *)
(* answers, the clock and the cache sweep.                                  *)
(***************************************************************************)
TorrentA == Torrent(<<"a"," ","1","0","8","0","p">>, MagnetA, <<5>>)
\* the search results a listing is built from, in the debrid specification
RdListings == { <<>>, <<TorrentA>> }

\* what handleStreamRequest (anilist) does from the search result on,
\* server.js:354-378: for every candidate shown, preCacheRD(t.magnet, rdKey) runs
\* (and may start a getRDStream call) before the candidate is built
ListingAnilist(torrents, rdKey) ==
    LET starts(t) == hasRD(rdKey) /\ preCacheRD_starts(t.magnet, rdKey)
        need == IF torrents = <<>> THEN <<>> ELSE SelectSeq(shownAnilist(torrents), starts)
    IN /\ conv' = conv \o [k \in DOMAIN need |-> NewCall(need[k].magnet, rdKey, "precache", FreeName(k))]
       /\ net' = {Call("addMagnet", need[k].magnet, rdKey) : k \in DOMAIN need}
       /\ resp' = [NoResp EXCEPT !.kind = "json", !.key = rdKey,
                                 !.streams = streamsAnilist(torrents, rdKey)]

\* a stream request of the anilist variant whose search found `torrents`
StreamListingAnilist(torrents, cfgKey) ==
    /\ variant = "anilist"
    /\ Len(conv) + Len(torrents) <= MaxConv
    /\ ListingAnilist(torrents, IF Truthy(cfgKey) THEN cfgKey ELSE KeyNord)  \* config?.rdKey || 'nord'
    /\ UNCHANGED <<variant, metaVars, now, rdCache, searchVars, nameVars>>

TickMs == 30 * 60 * 1000

\* time passes
Tick(d) ==
    /\ now + d <= MaxTicks * d
    /\ now' = now + d
    /\ net' = {}
    /\ resp' = NoResp
    /\ UNCHANGED <<variant, metaVars, rdCache, conv, searchVars, nameVars>>

\* a mutant of sweepCache: an entry of the age of the TTL is deleted too
sweepCache_inclusive(cache, ttl) ==
    MapDelete(cache, {k \in DOMAIN cache : now - cache[k].timestamp >= ttl})

\* the cron sweep of one cache: if (now - v.timestamp > TTL) cache.delete(k)
sweepCache(cache, ttl) ==
    MapDelete(cache, {k \in DOMAIN cache : now - cache[k].timestamp > ttl})

\* cron.schedule('*/30 * * * *', ...): the sweep of the caches, taken when
\* there is something to remove
Sweep ==
    /\ nameCache' = sweepCache(nameCache, NAME_CACHE_TTL)
    /\ nyaaCache' = sweepCache(nyaaCache, NYAA_CACHE_TTL)
    /\ rdCache' = sweepCache(rdCache, RD_CACHE_TTL)
    /\ anilistDetailsCache' = sweepCache(anilistDetailsCache, ANILIST_DETAILS_TTL)
    /\ anilistSearchCache' = sweepCache(anilistSearchCache, ANILIST_CACHE_TTL)
    /\ <<nameCache', nyaaCache', rdCache', anilistDetailsCache', anilistSearchCache'>>
          # <<nameCache, nyaaCache, rdCache, anilistDetailsCache, anilistSearchCache>>
    /\ net' = {}
    /\ resp' = NoResp
    /\ UNCHANGED <<variant, now, conv, req, res>>

(***************************************************************************)
(* The stream specification: one stream request at a time, from the route  *)
(* to the response.  The metadata collaborators and the torrent index      *)
(* answer with values drawn from small sets.                               *)
(***************************************************************************)
MaxFeed == 3
MaxRequests == 1

\* the records the torrent index can answer with
Catalog == { Torrent(<<"A","S","W"," ","0","1"," ","1","0","8","0","p">>, <<"?","b","t","i","h",":","a","b">>, <<5>>),
             Torrent(<<"x"," ","0","1">>, <<"?","b","t","i","h",":","A","B">>, <<9>>),
             Torrent(<<"x"," ","0","1"," ","1","0","8","0","p">>, <<"?","b","t","i","h",":","c","d">>, <<2>>),
             Torrent(<<"E","m","b","e","r"," ","0","1">>, <<"?","d","n","=","e">>, <<7>>),
             Torrent(<<"x"," ","0","2">>, <<"?","b","t","i","h",":","e","f">>, <<8>>),
             Torrent(<<"x"," ","0","1">>, <<"?","b","t","i","h",":","g","h">>, <<>>),
             Torrent(<<"x"," ","0","1">>, Undefined, <<3>>) }

\* what all the queries of one round bring back, in arrival order
Feeds == UNION {[1..n -> Catalog] : n \in 0..MaxFeed}

TitleX == <<"x">>
TitleY == <<"y",":"," ","z">>

\* the stream ids requested
KitsuIds == { <<"k","i","t","s","u",":","1",":","1">>, <<"t","t","1",":","2",":","1">>, <<"t","t","1">> }
AnilistIds == { <<"a","n","i","l","i","s","t",":","7",":","1">>, <<"a","n","i","l","i","s","t",":","7",":","2">>, <<"t","t","7",":","1">> }

\* the answers of resolveAnimeNames
NameResults == { <<>>, <<TitleX>>, <<TitleX, TitleY>> }

\* the answers of getAniListDetails: null, or the media
Media(format, romaji, english) ==
    [isNull |-> FALSE, format |-> format, title |-> [romaji |-> romaji, english |-> english]]
NoMedia == [isNull |-> TRUE, format |-> "", title |-> [romaji |-> Null, english |-> Null]]
Medias == { NoMedia,
            Media("TV", TitleX, Null),
            Media("TV", TitleX, TitleY),
            Media("TV", TitleX, TitleX),
            Media("TV", Null, Null),
            Media("MOVIE", TitleX, Null) }

\* the decoded :userConfig of the anilist route; BadConfig makes JSON.parse throw
BadConfig == [bad |-> TRUE, rdKey |-> Undefined]
Configs == {BadConfig} \cup {[bad |-> FALSE, rdKey |-> k] : k \in ApiKeys}

\* parseEpisodeAndSeason
parseEpisodeAndSeason(fullId) ==
    LET parts == split(fullId, ":")
        part(i) == IF i <= Len(parts) THEN parts[i] ELSE Undefined
        intOr1(p) == IF p = Undefined THEN 1 ELSE parseIntOr1(p)
    IN IF startsWith(fullId, <<"k","i","t","s","u",":">>)
       THEN [season |-> 1, episode |-> intOr1(part(3))]
       ELSE IF Len(parts) >= 3
       THEN [season |-> intOr1(part(2)), episode |-> intOr1(part(3))]
       ELSE [season |-> 1, episode |-> intOr1(part(2))]

\* id.match(/^anilist:(\d+):(\d+)$/) : <<>> for no match, else <<id, episode digits>>
matchAnilistId(id) ==
    LET parts == split(id, ":")
        digits(p) == p # <<>> /\ \A i \in DOMAIN p : p[i] \in Digits
    IN IF Len(parts) = 3 /\ parts[1] = <<"a","n","i","l","i","s","t">> /\ digits(parts[2]) /\ digits(parts[3])
       THEN <<parts[2], parts[3]>> ELSE <<>>

\* getStremioType
getStremioType(media) == IF media.format \in {"MOVIE", "SPECIAL"} THEN "movie" ELSE "series"

NoReq ==
    [pc |-> "none", count |-> 0, id |-> <<>>, rdKey |-> <<>>, episode |-> <<>>,
     type |-> "", search |-> <<>>,
     season |-> <<>>, names |-> <<>>, titles |-> <<>>, idx |-> 0, pending |-> <<>>,
     searches |-> <<>>, r |-> <<>>, found |-> <<>>]

\* a request may start when none is being handled
Idle == req.pc \in {"none", "done"} /\ req.count < MaxRequests

NewReq(id, rdKey) ==
    [NoReq EXCEPT !.count = req.count + 1, !.id = id, !.rdKey = rdKey]

\* res.json(result) of the stream routes
Json(q, streams) ==
    [NoResp EXCEPT !.kind = "json", !.key = q.rdKey, !.streams = streams]

\* searchNyaaAll from the title after index `after` on (0: from the start), as far
\* as the search cache carries it: either a search to wait for (await is its
\* index in names) or the torrents returned (await = 0)
RECURSIVE searchNyaaAll_from(_, _, _)
searchNyaaAll_from(q, after, cache) ==
    LET romaji == q.names[1]
        english == IF Len(q.names) >= 2 THEN q.names[2] ELSE Null
        idx == IF after = 0 /\ Truthy(romaji) THEN 1
               ELSE IF after < 2 /\ Truthy(english) /\ english # romaji THEN 2
               ELSE 0
    IN IF idx = 0 THEN [await |-> 0, torrents |-> <<>>]
       ELSE LET cached == MapGet(cache, nyaaCacheKey(q.names[idx], q.episode, q.season))
            IN IF isCacheValid(cached, NYAA_CACHE_TTL)
               THEN IF cached.data # <<>> THEN [await |-> 0, torrents |-> cached.data]
                    ELSE searchNyaaAll_from(q, idx, cache)
               ELSE [await |-> idx, torrents |-> <<>>]

\* handleStreamRequest (kitsu) goes on after searchNyaaAll has come to `adv`
KitsuGoOn(q, adv) ==
    IF adv.await # 0
    THEN /\ req' = [q EXCEPT !.pc = "search", !.idx = adv.await,
                             !.pending = << searchQueries(q.names[adv.await], q.episode) >>]
         /\ resp' = NoResp
    ELSE /\ req' = [q EXCEPT !.pc = "done", !.found = adv.torrents]
         /\ resp' = Json(q, streamsKitsu(adv.torrents, q.rdKey))

\* GET /:rdKey/stream/:type/:fullId.json (kitsu): up to the await of resolveAnimeNames
StreamRouteKitsu(fullId, rdKey) ==
    /\ variant = "kitsu"
    /\ Idle
    /\ LET p == parseEpisodeAndSeason(fullId)
       IN req' = [NewReq(fullId, rdKey) EXCEPT !.pc = "names", !.episode = <<p.episode>>,
                                               !.season = <<p.season>>]
    /\ resp' = NoResp
    /\ net' = {}
    /\ UNCHANGED <<variant, metaVars, now, rdCache, conv, nyaaCache, nameVars>>

\* resolveAnimeNames has answered
NamesResolved(names) ==
    /\ variant = "kitsu"
    /\ req.pc = "names"
    /\ IF names = <<>>
       THEN /\ req' = [req EXCEPT !.pc = "done"]
            /\ resp' = Json(req, << Placeholder("names") >>)
       ELSE LET q == [req EXCEPT !.names = names]
            IN KitsuGoOn(q, searchNyaaAll_from(q, 0, nyaaCache))
    /\ net' = {}
    /\ UNCHANGED <<variant, metaVars, now, rdCache, conv, nyaaCache, nameVars>>

\* the part of the feed that answers query g of `total` queries: the first query
\* gets the records before the cut, the last one those after it
responseOf(feed, cut, g, total) ==
    IF total = 1 THEN feed
    ELSE IF g = 1 THEN SubSeq(feed, 1, cut)
    ELSE IF g = total THEN SubSeq(feed, cut + 1, Len(feed))
    ELSE <<>>

\* the outcome of query g: the queries in `down` fail
outcomeOf(feed, cut, down, g, total) ==
    IF g \in down THEN Failed ELSE Fulfilled(responseOf(feed, cut, g, total))

\* the responses to the queries of the pending searches
responsesOf(pending, feed, cut, down) ==
    LET total == Len(Flatten(pending))
        offset(s) == IF s = 1 THEN 0 ELSE Len(pending[1])
    IN [s \in DOMAIN pending |->
          [j \in DOMAIN pending[s] |-> outcomeOf(feed, cut, down, offset(s) + j, total)]]

\* the feed is split between the first and the last query, and a query that
\* fails brings no record
FeedFits(pending, feed, cut, down) ==
    LET total == Len(Flatten(pending))
    IN /\ cut \in 0..Len(feed)
       /\ total = 0 => feed = <<>>
       /\ total <= 1 => cut = Len(feed)
       /\ down \subseteq 1..total
       /\ \A g \in down : responseOf(feed, cut, g, total) = <<>>

\* what is kept of a search that ran: its title, the queries it issued, those
\* that failed, the records the others brought, the merged list, the list the
\* episode filter and the sort left, and whether the search threw
Ran(title, queries, responses, sr) ==
    [title |-> title, queries |-> queries, responses |-> responses,
     down |-> {j \in DOMAIN responses : ~responses[j].ok},
     inputs |-> Flatten([j \in DOMAIN responses |-> responses[j].records]),
     merged |-> sr.merged, data |-> sr.data, threw |-> sr.threw]

\* the queries of searchNyaaForName have all settled (kitsu)
SearchSettledKitsu(feed, cut, down) ==
    /\ variant = "kitsu"
    /\ req.pc = "search"
    /\ FeedFits(req.pending, feed, cut, down)
    /\ \E reversed \in BOOLEAN :
       LET title == req.names[req.idx]
           responses == responsesOf(req.pending, feed, cut, down)[1]
           results == allSettled(responses, CompletionOrder(Len(responses), reversed))
           sr == searchResult(results, req.episode, req.season)
           q == [req EXCEPT !.pending = <<>>,
                            !.searches = Append(@, Ran(title, req.pending[1], responses, sr))]
           cache == MapSet(nyaaCache, nyaaCacheKey(title, req.episode, req.season),
                           [data |-> sr.data, timestamp |-> now])
       IN IF sr.threw
          THEN \* the TypeError leaves handleStreamRequest; the route's catch answers
               /\ req' = [q EXCEPT !.pc = "done"]
               /\ resp' = Json(q, <<>>)
               /\ nyaaCache' = nyaaCache
          ELSE /\ nyaaCache' = cache
               /\ IF sr.data # <<>>
                  THEN KitsuGoOn(q, [await |-> 0, torrents |-> sr.data])
                  ELSE KitsuGoOn(q, searchNyaaAll_from(q, req.idx, cache))
    /\ net' = {}
    /\ UNCHANGED <<variant, metaVars, now, rdCache, conv, nameVars>>

\* the merge of the two titles' results, server.js:343-349
mergeTitles(r1, r2) == sortBySeeders(dedupByHash(r1 \o r2))

\* handleStreamRequest (anilist) once every searchNyaa has returned
AnilistFinish(q, results) ==
    LET torrents == IF Len(results) = 2 THEN mergeTitles(results[1], results[2])
                    ELSE results[1]
    IN /\ req' = [q EXCEPT !.pc = "done", !.pending = <<>>, !.r = results, !.found = torrents]
       /\ ListingAnilist(torrents, q.rdKey)

\* the titles handleStreamRequest (anilist) searches for
titlesOf(media) ==
    LET romaji == media.title.romaji
        english == media.title.english
    IN IF Truthy(romaji) /\ Truthy(english) /\ romaji # english
       THEN <<romaji, english>>
       ELSE << IF Truthy(romaji) THEN romaji ELSE IF Truthy(english) THEN english ELSE <<>> >>

\* searchNyaa is served from the search cache
NyaaHit(title, ep) == isCacheValid(MapGet(nyaaCache, nyaaCacheKey(title, ep, <<>>)), NYAA_CACHE_TTL)

\* handleStreamRequest (anilist) from the answer of getAniListDetails on
AnilistGoOn(q0, media) ==
    IF media = NoMedia
    THEN /\ req' = [q0 EXCEPT !.pc = "done"]
         /\ resp' = Json(q0, <<>>)
         /\ net' = {}
         /\ conv' = conv
    ELSE LET ep == IF getStremioType(media) = "movie" THEN <<>> ELSE q0.episode
             titles == titlesOf(media)
             misses == SelectSeq(titles, LAMBDA t : ~NyaaHit(t, ep))
             q == [q0 EXCEPT !.titles = titles, !.names = misses, !.episode = ep]
         IN IF misses = <<>>
            THEN AnilistFinish(q, [i \in DOMAIN titles |->
                                     MapGet(nyaaCache, nyaaCacheKey(titles[i], ep, <<>>)).data])
            ELSE /\ req' = [q EXCEPT !.pc = "search",
                                     !.pending = [i \in DOMAIN misses |->
                                                    searchQueries(misses[i], ep)]]
                 /\ resp' = NoResp
                 /\ net' = {}
                 /\ conv' = conv

\* the key of the details cache: String(anilistId)
detailsKey(id) == matchAnilistId(id)[1]

\* GET /:userConfig/stream/:type/:id.json (anilist): up to the await of the
\* AniList call in getAniListDetails, or past it when the details cache answers
StreamRouteAnilist(id, config) ==
    /\ variant = "anilist"
    /\ Idle
    /\ IF config = BadConfig
       THEN /\ req' = [NewReq(id, Undefined) EXCEPT !.pc = "done"]
            /\ resp' = [NoResp EXCEPT !.kind = "json", !.key = Undefined]
            /\ net' = {}
            /\ conv' = conv
       ELSE LET rdKey == IF Truthy(config.rdKey) THEN config.rdKey ELSE KeyNord
                q == NewReq(id, rdKey)
                m == matchAnilistId(id)
            IN IF m = <<>>
               THEN /\ req' = [q EXCEPT !.pc = "done"]
                    /\ resp' = Json(q, <<>>)
                    /\ net' = {}
                    /\ conv' = conv
               ELSE LET q1 == [q EXCEPT !.episode = <<parseIntOr1(m[2])>>]
                        cached == MapGet(anilistDetailsCache, detailsKey(id))
                    IN IF isCacheValid(cached, ANILIST_DETAILS_TTL)
                       THEN AnilistGoOn(q1, cached.data)
                       ELSE /\ req' = [q1 EXCEPT !.pc = "details"]
                            /\ resp' = NoResp
                            /\ net' = {}
                            /\ conv' = conv
    /\ UNCHANGED <<variant, metaVars, now, rdCache, nyaaCache, nameVars>>

\* a mutant of DetailsReply: a null answer is stored as any other
DetailsReply_cachesNull(media) ==
    /\ variant = "anilist"
    /\ req.pc = "details"
    /\ anilistDetailsCache' = MapSet(anilistDetailsCache, detailsKey(req.id),
                                     [data |-> media, timestamp |-> now])
    /\ AnilistGoOn(req, media)
    /\ UNCHANGED <<variant, now, rdCache, nyaaCache, nameVars, anilistSearchCache>>

\* the AniList call of getAniListDetails has answered: a media, or null (no
\* such media, or an error); if (data) anilistDetailsCache.set(key, ...)
DetailsReply(media) ==
    /\ variant = "anilist"
    /\ req.pc = "details"
    /\ anilistDetailsCache' =
          IF media = NoMedia THEN anilistDetailsCache
          ELSE MapSet(anilistDetailsCache, detailsKey(req.id),
                      [data |-> media, timestamp |-> now])
    /\ AnilistGoOn(req, media)
    /\ UNCHANGED <<variant, now, rdCache, nyaaCache, nameVars, anilistSearchCache>>

(***************************************************************************)
(* The catalog search (src/server.js): handleCatalogRequest and            *)
(* searchAniList.                                                          *)
(***************************************************************************)
\* a media of the result list of AniList: the attributes of Media and its id
Found(id, media) == [id |-> id, format |-> media.format, title |-> media.title]

\* what the AniList search call comes to: an error (or the 8 s timeout), a
\* reply without the media list, or a reply with it
SearchError == [ok |-> FALSE, listed |-> FALSE, media |-> <<>>]
SearchNoList == [ok |-> TRUE, listed |-> FALSE, media |-> <<>>]
SearchReplyOf(media) == [ok |-> TRUE, listed |-> TRUE, media |-> media]

\* title.romaji || title.english || title.native || 'Unknown' (the titles of
\* the model carry no native name)
getBestTitle(title) ==
    IF Truthy(title.romaji) THEN title.romaji
    ELSE IF Truthy(title.english) THEN title.english
    ELSE <<"U","n","k","n","o","w","n">>

\* results.filter(m => getStremioType(m) === type).map(m => ({ id, type, name, ... }))
metasOf(results, type) ==
    LET kept == SelectSeq(results, LAMBDA m : getStremioType(m) = type)
    IN [i \in DOMAIN kept |->
          [id |-> <<"a","n","i","l","i","s","t",":">> \o String(kept[i].id),
           type |-> getStremioType(kept[i]),
           name |-> getBestTitle(kept[i].title)]]

\* res.json({ metas }) of the catalog route
Metas(metas) == [NoResp EXCEPT !.kind = "metas", !.metas = metas]

\* cacheKey = `search:${query}`
searchCacheKey(query) == <<"s","e","a","r","c","h",":">> \o query

\* GET /:userConfig/catalog/:type/:id/:extra.json : handleCatalogRequest up to
\* the await of the AniList call in searchAniList, or past it when the search
\* cache answers
CatalogRoute(type, extra) ==
    /\ variant = "anilist"
    /\ Idle
    /\ LET search == IF Truthy(extra.search) THEN extra.search ELSE Null
           parsed == IF extra.skip = Undefined THEN <<>> ELSE parseInt(extra.skip)
           skip == IF parsed = <<>> THEN 0 ELSE parsed[1]
           q == [NewReq(<<>>, Undefined) EXCEPT !.type = type]
       IN IF skip > 0 \/ search = Null \/ trim(search) = <<>>
          THEN /\ req' = [q EXCEPT !.pc = "done"]
               /\ resp' = Metas(<<>>)
          ELSE LET query == trim(search)
                   cached == MapGet(anilistSearchCache, searchCacheKey(query))
               IN IF isCacheValid(cached, ANILIST_CACHE_TTL)
                  THEN /\ req' = [q EXCEPT !.pc = "done", !.search = query]
                       /\ resp' = Metas(metasOf(cached.data, type))
                  ELSE /\ req' = [q EXCEPT !.pc = "catalog", !.search = query]
                       /\ resp' = NoResp
    /\ net' = {}
    /\ UNCHANGED <<variant, metaVars, now, rdCache, conv, nyaaCache, nameVars>>

\* a mutant of SearchReply: the empty list returned after an error is stored too
SearchReply_cachesError(answer) ==
    /\ variant = "anilist"
    /\ req.pc = "catalog"
    /\ LET data == IF answer.ok /\ answer.listed THEN answer.media ELSE <<>>
       IN /\ anilistSearchCache' = MapSet(anilistSearchCache, searchCacheKey(req.search),
                                          [data |-> data, timestamp |-> now])
          /\ req' = [req EXCEPT !.pc = "done"]
          /\ resp' = Metas(metasOf(data, req.type))
    /\ net' = {}
    /\ UNCHANGED <<variant, anilistDetailsCache, now, rdCache, conv, nyaaCache, nameVars>>

\* the AniList call of searchAniList has settled: the list is stored and
\* returned, or the catch returns [] and stores nothing
SearchReply(answer) ==
    /\ variant = "anilist"
    /\ req.pc = "catalog"
    /\ LET data == IF answer.ok /\ answer.listed THEN answer.media ELSE <<>>
       IN /\ anilistSearchCache' =
                IF answer.ok
                THEN MapSet(anilistSearchCache, searchCacheKey(req.search),
                            [data |-> data, timestamp |-> now])
                ELSE anilistSearchCache
          /\ req' = [req EXCEPT !.pc = "done"]
          /\ resp' = Metas(metasOf(data, req.type))
    /\ net' = {}
    /\ UNCHANGED <<variant, anilistDetailsCache, now, rdCache, conv, nyaaCache, nameVars>>

\* the queries of every searchNyaa under way have settled (anilist)
SearchSettledAnilist(feed, cut, down) ==
    /\ variant = "anilist"
    /\ req.pc = "search"
    /\ FeedFits(req.pending, feed, cut, down)
    /\ \E reversed \in BOOLEAN :
       LET responses == responsesOf(req.pending, feed, cut, down)
           results == [s \in DOMAIN req.names |->
                         allSettled(responses[s], CompletionOrder(Len(responses[s]), reversed))]
           sr == [s \in DOMAIN req.names |-> searchResult(results[s], req.episode, <<>>)]
           ran == [s \in DOMAIN req.names |->
                     Ran(req.names[s], req.pending[s], responses[s], sr[s])]
           missIndex(t) == CHOOSE s \in DOMAIN req.names : req.names[s] = t
           result(t) == IF \E s \in DOMAIN req.names : req.names[s] = t
                        THEN sr[missIndex(t)].data
                        ELSE MapGet(nyaaCache, nyaaCacheKey(t, req.episode, <<>>)).data
           q == [req EXCEPT !.searches = @ \o ran]
           stored(cache, s) == MapSet(cache, nyaaCacheKey(req.names[s], req.episode, <<>>),
                                      [data |-> sr[s].data, timestamp |-> now])
       IN /\ nyaaCache' = IF Len(req.names) = 2 THEN stored(stored(nyaaCache, 1), 2)
                          ELSE stored(nyaaCache, 1)
          /\ AnilistFinish(q, [i \in DOMAIN req.titles |-> result(req.titles[i])])
    /\ UNCHANGED <<variant, metaVars, now, rdCache, nameVars>>


(***************************************************************************)
(* The title resolver (src/unnamed/part_000): resolveAnimeNames with the   *)
(* name cache, and the collaborators it asks.  res holds the calls in      *)
(* flight; pc is the await a call is parked at: "kitsu", "cinemeta" or     *)
(* "anilist".                                                              *)
(***************************************************************************)
MaxRes == 2         \* resolveAnimeNames calls in flight at once

\* a character outside the Latin ranges of isLatinScript (a kana, say)
NonLatinChar == "<kana>"
\* the character U+25CF of the junk pattern
Bullet == "<bullet>"

\* isLatinScript: /^[\x00-\x7FÀ-ɏḀ-ỿ\s\-:!?.'&]+$/
isLatinScript(str) == str # <<>> /\ \A i \in DOMAIN str : str[i] \notin {NonLatinChar, Bullet}

\* isJunkTitle: /mini anime|recap|ova|special|pv|promo|preview|part \d|●|\?\?/i
JunkWords == { <<"m","i","n","i"," ","a","n","i","m","e">>, <<"r","e","c","a","p">>, <<"o","v","a">>, <<"s","p","e","c","i","a","l">>, <<"p","v">>, <<"p","r","o","m","o">>, <<"p","r","e","v","i","e","w">>, <<"?","?">> }
isJunkTitle(str) ==
    LET l == toLowerCase(str)
    IN \/ \E w \in JunkWords : includes(l, w)
       \/ \E i \in DOMAIN l : MatchAt(l, <<"p","a","r","t"," ">>, i) /\ i + 5 <= Len(l) /\ l[i + 5] \in Digits
       \/ \E i \in DOMAIN l : l[i] = Bullet

\* a mutant of cleanNames: junk titles are let through
cleanNames_keepJunk(names) ==
    SelectSeq(names, LAMBDA n : Truthy(n) /\ isLatinScript(n))

\* .filter(n => n && isLatinScript(n) && !isJunkTitle(n))
cleanNames(names) ==
    SelectSeq(names, LAMBDA n : Truthy(n) /\ isLatinScript(n) /\ ~isJunkTitle(n))

NameResult(names, year) == [names |-> names, year |-> year]
NoNames == NameResult(<<>>, <<>>)

\* the answers of the Kitsu API: an error, a body without attributes, or attributes
KitsuAnswer(ok, attrs, en_jp, en, canonicalTitle, startDate) ==
    [ok |-> ok, attrs |-> attrs, en_jp |-> en_jp, en |-> en,
     canonicalTitle |-> canonicalTitle, startDate |-> startDate]
KitsuAnswers ==
    { KitsuAnswer(FALSE, FALSE, Undefined, Undefined, Undefined, Undefined),
      KitsuAnswer(TRUE, FALSE, Undefined, Undefined, Undefined, Undefined),
      KitsuAnswer(TRUE, TRUE, <<"x">>, <<"y",":"," ","z">>, <<"x">>, <<"2","0","2","0","-","0","1">>),
      KitsuAnswer(TRUE, TRUE, <<NonLatinChar>>, <<"x"," ","R","e","c","a","p">>, Undefined, Undefined) }

\* getNamesFromKitsu, from the answer of the API on
getNamesFromKitsu(a) ==
    IF ~a.ok \/ ~a.attrs THEN NoNames
    ELSE NameResult(unique(cleanNames(<<a.en_jp, a.en, a.canonicalTitle>>)),
                    IF Truthy(a.startDate) THEN parseInt(SubSeq(a.startDate, 1, 4)) ELSE <<>>)

\* the answers of Cinemeta: an error, a body without a name, or a name
CinemetaAnswers ==
    { [ok |-> FALSE, name |-> Undefined],
      [ok |-> TRUE, name |-> Undefined],
      [ok |-> TRUE, name |-> <<"y",":"," ","z">>],
      [ok |-> TRUE, name |-> <<"a","b","c">>],
      [ok |-> TRUE, name |-> <<"x"," ","R","e","c","a","p">>] }

\* the answers of the AniList search: an error, or a list of media
AniMedia(format, romaji, english, year) ==
    [format |-> format, title |-> [romaji |-> romaji, english |-> english], year |-> year]
AniListAnswers ==
    { [ok |-> FALSE, media |-> <<>>],
      [ok |-> TRUE, media |-> <<>>],
      [ok |-> TRUE, media |-> << AniMedia("MOVIE", <<"m">>, Null, <<2019>>),
                                 AniMedia("TV", <<"x">>, <<"y",":"," ","z">>, <<2020>>) >>],
      [ok |-> TRUE, media |-> << AniMedia("OVA", <<NonLatinChar>>, <<"x"," ","O","V","A">>, <<>>) >>],
      [ok |-> TRUE, media |-> << AniMedia("TV", <<"q","q","q">>, Null, <<2018>>),
                                 AniMedia("TV", <<"a","b","c">>, Null, <<2021>>) >>] }

TypeSeries == <<"s","e","r","i","e","s">>

\* the candidate getNamesFromIMDb goes by:
\*   mediaList.find(m => isSeriesRequest ? (m.format === 'TV' || m.format === 'TV_SHORT')
\*                                        : m.format === 'MOVIE') || mediaList[0]
bestOf(type, mediaList) ==
    LET wanted(m) == IF type = TypeSeries THEN m.format \in {"TV", "TV_SHORT"}
                     ELSE m.format = "MOVIE"
        hits == {i \in DOMAIN mediaList : wanted(mediaList[i])}
    IN IF hits = {} THEN mediaList[1]
       ELSE mediaList[CHOOSE i \in hits : \A j \in hits : i <= j]

\* getNamesFromIMDb, from the answer of the AniList search on; name is Cinemeta's
getNamesFromIMDb(type, name, a) ==
    IF ~a.ok THEN NoNames
    ELSE IF a.media = <<>> THEN NameResult(<<name>>, <<>>)
    ELSE LET wanted(m) == IF type = TypeSeries THEN m.format \in {"TV", "TV_SHORT"}
                          ELSE m.format = "MOVIE"
             hits == {i \in DOMAIN a.media : wanted(a.media[i])}
             best == IF hits = {} THEN a.media[1]
                     ELSE a.media[CHOOSE i \in hits : \A j \in hits : i <= j]
             names == cleanNames(<<best.title.romaji, best.title.english>>)
             finalNames == IF names # <<>> THEN names ELSE <<name>>
         IN NameResult(unique(finalNames), best.year)

\* the name-cache key: `names:${type}:${fullId}`
nameCacheKey(type, fullId) == <<"n","a","m","e","s",":">> \o type \o <<":">> \o fullId

\* a mutant of nameTimestamp: every result is stamped as the empty one is
nameTimestamp_alwaysBackdated(result) == now - NAME_CACHE_TTL + 60000

\* a mutant of nameTimestamp: an empty result is stamped like any other
nameTimestamp_alwaysNow(result) == now

\* the timestamp resolveAnimeNames stores a result with:
\*   result.names.length ? Date.now() : Date.now() - NAME_CACHE_TTL + 60000
nameTimestamp(result) ==
    IF result.names # <<>> THEN now ELSE now - NAME_CACHE_TTL + 60000

\* the (type, fullId) pairs resolved
ResolveIds == { <<TypeSeries, <<"k","i","t","s","u",":","1",":","1">>>>, <<TypeSeries, <<"t","t","1",":","1",":","1">>>> }

NewResolve(type, fullId) ==
    [pc |-> IF startsWith(fullId, <<"k","i","t","s","u",":">>) THEN "kitsu" ELSE "cinemeta",
     type |-> type, fullId |-> fullId, name |-> Undefined]

\* the argument of the first collaborator call: fullId.split(':')[1] for Kitsu,
\* baseId = fullId.split(':')[0] for Cinemeta
firstCall(type, fullId) ==
    IF startsWith(fullId, <<"k","i","t","s","u",":">>)
    THEN Call("kitsu", split(fullId, ":")[2], type)
    ELSE Call("cinemeta", split(fullId, ":")[1], type)

NamesReturned(type, fullId, result) ==
    [NoResp EXCEPT !.kind = "names", !.magnet = fullId, !.key = type, !.result = result]

\* resolveAnimeNames(type, fullId) up to its first await: a valid cache entry
\* is returned, else the first collaborator is asked
resolveAnimeNames(type, fullId) ==
    /\ variant = "kitsu"
    /\ Len(res) < MaxRes
    /\ LET cached == MapGet(nameCache, nameCacheKey(type, fullId))
       IN IF isCacheValid(cached, NAME_CACHE_TTL)
          THEN /\ resp' = NamesReturned(type, fullId, cached.data)
               /\ net' = {}
               /\ res' = res
          ELSE /\ resp' = NoResp
               /\ net' = {firstCall(type, fullId)}
               /\ res' = Append(res, NewResolve(type, fullId))
    /\ UNCHANGED <<variant, metaVars, now, rdCache, conv, searchVars, nameCache>>

\* the end of resolveAnimeNames: the result is stored, empty or not, and returned.
\* storedAt keeps the time of the store (the code keeps only timestamp)
StoreAndReturn(n, result) ==
    /\ nameCache' = MapSet(nameCache, nameCacheKey(res[n].type, res[n].fullId),
                           [data |-> result, timestamp |-> nameTimestamp(result),
                            storedAt |-> now])
    /\ res' = Remove(res, n)
    /\ resp' = NamesReturned(res[n].type, res[n].fullId, result)
    /\ net' = {}

\* the Kitsu API has answered
KitsuReply(n, a) ==
    /\ res[n].pc = "kitsu"
    /\ StoreAndReturn(n, getNamesFromKitsu(a))
    /\ UNCHANGED <<variant, metaVars, now, rdCache, conv, searchVars>>

\* Cinemeta has answered: without a name the resolution is empty, with one
\* AniList is searched for it
CinemetaReply(n, a) ==
    /\ res[n].pc = "cinemeta"
    /\ IF ~a.ok \/ ~Truthy(a.name)
       THEN StoreAndReturn(n, NoNames)
       ELSE /\ res' = [res EXCEPT ![n].pc = "anilist", ![n].name = a.name]
            /\ net' = {Call("anilist", a.name, res[n].type)}
            /\ resp' = NoResp
            /\ nameCache' = nameCache
    /\ UNCHANGED <<variant, metaVars, now, rdCache, conv, searchVars>>

\* the AniList search has answered
AniListReply(n, a) ==
    /\ res[n].pc = "anilist"
    /\ StoreAndReturn(n, getNamesFromIMDb(res[n].type, res[n].name, a))
    /\ UNCHANGED <<variant, metaVars, now, rdCache, conv, searchVars>>

NoRes == <<>>

Init ==
    /\ variant \in {"kitsu", "anilist"}
    /\ now = 0
    /\ rdCache = EmptyMap
    /\ conv = <<>>
    /\ net = {}
    /\ resp = NoResp
    /\ nyaaCache = EmptyMap
    /\ req = NoReq
    /\ nameCache = EmptyMap
    /\ res = NoRes
    /\ anilistDetailsCache = EmptyMap
    /\ anilistSearchCache = EmptyMap

Next ==
    \/ \E m \in RdMagnets, k \in {KeyNord, KeyK1} : RdRoute(m, k)
    \/ \E n \in DOMAIN conv : AddMagnetReply(n)
    \/ \E n \in DOMAIN conv : InfoReply(n)
    \/ \E n \in DOMAIN conv : SelectReply(n)
    \/ \E n \in DOMAIN conv : PollReply(n)
    \/ \E n \in DOMAIN conv : UnrestrictReply(n)
    \/ \E ts \in RdListings, k \in ApiKeys : StreamListingAnilist(ts, k)
    \/ Tick(TickMs)
    \/ Sweep

Spec == Init /\ [][Next]_vars

\* the await the call at index n sits at settles: every provider call carries
\* an axios timeout (12000, 10000) and the pause is a 2 s timer
Settle(n) ==
    \/ AddMagnetReply(n)
    \/ InfoReply(n)
    \/ SelectReply(n)
    \/ PollReply(n)
    \/ UnrestrictReply(n)

InFlight(name) == \E n \in DOMAIN conv : conv[n].name = name

SettleOf(name) == \E n \in DOMAIN conv : conv[n].name = name /\ Settle(n)

\* the conversions alone, every pending await settling in the end
NextRd ==
    \/ \E m \in RdMagnets, k \in {KeyNord, KeyK1} : RdRoute(m, k)
    \/ \E n \in DOMAIN conv : AddMagnetReply(n)
    \/ \E n \in DOMAIN conv : InfoReply(n)
    \/ \E n \in DOMAIN conv : SelectReply(n)
    \/ \E n \in DOMAIN conv : PollReply(n)
    \/ \E n \in DOMAIN conv : UnrestrictReply(n)
    \/ \E ts \in RdListings, k \in ApiKeys : StreamListingAnilist(ts, k)

SpecRd == Init /\ [][NextRd]_vars /\ \A name \in CallNames : WF_vars(SettleOf(name))

NextStream ==
    \/ \E id \in KitsuIds, k \in {KeyNord, KeyK1} : StreamRouteKitsu(id, k)
    \/ \E names \in NameResults : NamesResolved(names)
    \/ \E feed \in Feeds, cut \in 0..MaxFeed : SearchSettledKitsu(feed, cut, {})
    \/ \E id \in AnilistIds, c \in Configs : StreamRouteAnilist(id, c)
    \/ \E media \in Medias : DetailsReply(media)
    \/ \E feed \in Feeds, cut \in 0..MaxFeed : SearchSettledAnilist(feed, cut, {})

SpecStream == Init /\ [][NextStream]_vars

(***************************************************************************)
(* The search specification: one stream request whose searches meet names  *)
(* of every kind the filters tell apart, and queries that fail.            *)
(***************************************************************************)
MaxHits == 2        \* records the index answers with in one round
MaxDown == 2        \* the first MaxDown queries of a round may fail

\* the records the torrent index can answer with: episode numbers in several
\* notations, a range, a batch, a recap, another episode, another season
SearchCatalog ==
    { Torrent(<<"x"," ","0","7">>, <<"?","b","t","i","h",":","a","b">>, <<5>>),
      Torrent(<<"x"," ","E","7">>, <<"?","b","t","i","h",":","c","d">>, <<4>>),
      Torrent(<<"x",".","0","7">>, <<"?","b","t","i","h",":","e","f">>, <<9>>),
      Torrent(<<"x"," ","0","1","-","1","2">>, <<"?","b","t","i","h",":","g","h">>, <<8>>),
      Torrent(<<"x"," ","b","a","t","c","h">>, <<"?","b","t","i","h",":","i","j">>, <<7>>),
      Torrent(<<"x"," ","R","e","c","a","p"," ","0","7">>, <<"?","b","t","i","h",":","k","l">>, <<6>>),
      Torrent(<<"x"," ","0","8">>, <<"?","b","t","i","h",":","m","n">>, <<3>>),
      Torrent(<<"x"," ","S","0","2","E","0","7">>, <<"?","b","t","i","h",":","o","p">>, <<2>>),
      Torrent(<<"x"," ","1","2">>, <<"?","b","t","i","h",":","q","r">>, <<1>>) }

SearchFeeds == UNION {[1..n -> SearchCatalog] : n \in 0..MaxHits}

TitleK == <<"K","i","m","e","t","s","u"," ","n","o"," ","Y","a","i","b","a">>

SearchKitsuIds == { <<"k","i","t","s","u",":","1",":","7">>, <<"t","t","1",":","1",":","1","2">>, <<"k","i","t","s","u",":","1",":","1">> }
SearchAnilistIds == { <<"a","n","i","l","i","s","t",":","7",":","7">>, <<"a","n","i","l","i","s","t",":","7",":","1","2">> }
SearchNames == { <<TitleX>>, <<TitleY, TitleX>>, <<TitleK>> }
SearchMedias == { Media("TV", TitleX, Null), Media("TV", TitleY, TitleX),
                  Media("MOVIE", TitleX, Null), Media("TV", Null, Null) }

NextSearch ==
    \/ \E id \in SearchKitsuIds : StreamRouteKitsu(id, KeyNord)
    \/ \E names \in SearchNames : NamesResolved(names)
    \/ \E feed \in SearchFeeds, cut \in 0..MaxHits, down \in SUBSET (1..MaxDown) :
          SearchSettledKitsu(feed, cut, down)
    \/ \E id \in SearchAnilistIds : StreamRouteAnilist(id, [bad |-> FALSE, rdKey |-> KeyNord])
    \/ \E media \in SearchMedias : DetailsReply(media)
    \/ \E feed \in SearchFeeds, cut \in 0..MaxHits, down \in SUBSET (1..MaxDown) :
          SearchSettledAnilist(feed, cut, down)

SpecSearch == Init /\ [][NextSearch]_vars

(***************************************************************************)
(* The cache specification: requests one after the other, each of them     *)
(* reading and filling a cache, with the clock and the sweep between them.  *)
(***************************************************************************)
\* the handler of the stream request has returned: the next one starts afresh
RequestOver ==
    /\ req.pc = "done"
    /\ req' = NoReq
    /\ net' = {}
    /\ resp' = NoResp
    /\ UNCHANGED <<variant, metaVars, now, rdCache, conv, nyaaCache, nameVars>>

\* nothing is being handled
Quiet == conv = <<>> /\ res = <<>> /\ req.pc = "none"

\* the clock steps of the cache specification: half an hour, and a day
CacheTicks == {TickMs, NAME_CACHE_TTL}

CacheId == <<"a","n","i","l","i","s","t",":","7",":","1">>
CacheMedias == { NoMedia, Media("TV", TitleX, Null) }
CacheFeeds == { <<>>, << Torrent(<<"x"," ","0","1">>, <<"?","b","t","i","h",":","a","b">>, <<9>>) >> }
CacheResolveId == << TypeSeries, <<"k","i","t","s","u",":","1",":","1">> >>

NextCache ==
    \/ Quiet /\ RdRoute(MagnetA, KeyK1)
    \/ \E n \in DOMAIN conv : AddMagnetReply(n)
    \/ \E n \in DOMAIN conv : InfoReply(n)
    \/ \E n \in DOMAIN conv : SelectReply(n)
    \/ \E n \in DOMAIN conv : PollReply(n)
    \/ \E n \in DOMAIN conv : UnrestrictReply(n)
    \/ Quiet /\ resolveAnimeNames(CacheResolveId[1], CacheResolveId[2])
    \/ \E n \in DOMAIN res, a \in KitsuAnswers : KitsuReply(n, a)
    \/ Quiet /\ StreamRouteAnilist(CacheId, [bad |-> FALSE, rdKey |-> KeyNord])
    \/ \E media \in CacheMedias : DetailsReply(media)
    \/ \E feed \in CacheFeeds : SearchSettledAnilist(feed, Len(feed), {})
    \/ RequestOver
    \/ \E d \in CacheTicks : Tick(d)
    \/ Sweep

SpecCache == Init /\ [][NextCache]_vars

\* the stream request with the timeouts of its outbound calls: an axios call
\* with { timeout: 8000 } that is not answered fails after 8 s, and its caller
\* goes on with the value of the catch: no names for resolveAnimeNames
\* (part_000:62, 85, 103), null for getAniListDetails (server.js:99).
\* si.searchAll(q, { filter: 0, category: '1_2' }) is given no timeout
\* (part_000:223, server.js:158): nothing makes a query settle
NextTimeouts ==
    \/ \E id \in KitsuIds, k \in {KeyNord, KeyK1} : StreamRouteKitsu(id, k)
    \/ \E names \in NameResults : NamesResolved(names)
    \/ \E feed \in CacheFeeds : SearchSettledKitsu(feed, Len(feed), {})
    \/ \E id \in AnilistIds, c \in Configs : StreamRouteAnilist(id, c)
    \/ \E media \in Medias : DetailsReply(media)
    \/ \E feed \in CacheFeeds : SearchSettledAnilist(feed, Len(feed), {})

SpecTimeouts ==
    /\ Init
    /\ [][NextTimeouts]_vars
    /\ WF_vars(NamesResolved(<<>>))
    /\ WF_vars(DetailsReply(NoMedia))

(***************************************************************************)
(* The listing specification: one stream request whose search finds from   *)
(* no record to more records than a listing may show.                      *)
(***************************************************************************)
MaxFound == 22      \* records the index answers with

\* the records found: episode 1 of x, each with its own hash, the seeders going
\* down; the last record of a feed is the 1080p release, with one seeder
FoundRecord(i) ==
    Torrent(<<"x"," ","0","1"," ">> \o String(i), <<"?","b","t","i","h",":","h">> \o String(i), <<MaxFound + 1 - i>>)
BestRecord == Torrent(<<"x"," ","0","1"," ","1","0","8","0","p">>, <<"?","b","t","i","h",":","h","d">>, <<1>>)
FoundFeed(n) == [i \in 1..n |-> IF i = n THEN BestRecord ELSE FoundRecord(i)]
FoundFeeds == {FoundFeed(n) : n \in 0..MaxFound}

NextListing ==
    \/ \E id \in KitsuIds, k \in {KeyNord, KeyK1} : StreamRouteKitsu(id, k)
    \/ \E names \in NameResults : NamesResolved(names)
    \/ \E feed \in FoundFeeds : SearchSettledKitsu(feed, Len(feed), {})
    \/ \E id \in AnilistIds, k \in {KeyNord, KeyK1} :
          StreamRouteAnilist(id, [bad |-> FALSE, rdKey |-> k])
    \/ \E media \in CacheMedias : DetailsReply(media)
    \/ \E feed \in FoundFeeds : SearchSettledAnilist(feed, Len(feed), {})

SpecListing == Init /\ [][NextListing]_vars

(***************************************************************************)
(* The accounts specification: conversions of one magnet for two accounts. *)
(***************************************************************************)
KeyK2 == <<"k","2">>                    \* a second RealDebrid API key

NextAccounts ==
    \/ \E k \in {KeyK1, KeyK2} : RdRoute(MagnetA, k)
    \/ \E n \in DOMAIN conv : AddMagnetReply(n)
    \/ \E n \in DOMAIN conv : InfoReply(n)
    \/ \E n \in DOMAIN conv : SelectReply(n)
    \/ \E n \in DOMAIN conv : PollReply(n)
    \/ \E n \in DOMAIN conv : UnrestrictReply(n)

SpecAccounts == Init /\ [][NextAccounts]_vars

(***************************************************************************)
(* The identifier specification: parseEpisodeAndSeason on the identifiers  *)
(* a stream request can carry.                                             *)
(***************************************************************************)
MaxSegments == 2    \* segments after the base identifier

\* what stands between the colons of an identifier
Segments == { <<"5">>, <<"0">>, <<"0","5">>, <<"x">>, <<"-","3">>, <<"1","2">>, <<"5","v","2">>, <<" ","7">>, <<"+","4">>, <<>> }
IdBases == { <<"k","i","t","s","u",":","1">>, <<"t","t","1">> }

RECURSIVE joinSegments(_)
joinSegments(segs) ==
    IF segs = <<>> THEN <<>> ELSE <<":">> \o Head(segs) \o joinSegments(Tail(segs))

FullIds ==
    {b \o joinSegments(segs) :
        b \in IdBases, segs \in UNION {[1..n -> Segments] : n \in 0..MaxSegments}}

\* const { season, episode } = parseEpisodeAndSeason(fullId), part_000:348
Parse(fullId) ==
    /\ resp' = [NoResp EXCEPT !.kind = "parsed", !.magnet = fullId,
                              !.ret = << parseEpisodeAndSeason(fullId).season,
                                         parseEpisodeAndSeason(fullId).episode >>]
    /\ net' = {}
    /\ UNCHANGED <<variant, metaVars, now, rdCache, conv, searchVars, nameVars>>

NextParse == \E fullId \in FullIds : Parse(fullId)

SpecParse == Init /\ [][NextParse]_vars

(***************************************************************************)
(* The isolation specification: /rd/ requests whose magnet or key holds    *)
(* the character the cache key is joined with.                             *)
(***************************************************************************)
\* the (magnet, key) pairs of the /rd/ requests
IsolationPairs == { << <<"a","_","b">>, <<"c">> >>,
                    << <<"a">>, <<"b","_","c">> >>,
                    << <<"a">>, <<"c">> >> }

NextIsolation ==
    \/ \E p \in IsolationPairs : RdRoute(p[1], p[2])
    \/ \E n \in DOMAIN conv : AddMagnetReply(n)
    \/ \E n \in DOMAIN conv : InfoReply(n)
    \/ \E n \in DOMAIN conv : SelectReply(n)
    \/ \E n \in DOMAIN conv : PollReply(n)
    \/ \E n \in DOMAIN conv : UnrestrictReply(n)

SpecIsolation == Init /\ [][NextIsolation]_vars

(***************************************************************************)
(* The metadata specification: the two AniList lookups of src/server.js    *)
(* and their caches over time.                                             *)
(***************************************************************************)
\* the extra of a catalog request: its search text and its skip
CatalogExtras ==
    { [search |-> Undefined, skip |-> Undefined],
      [search |-> <<" ">>, skip |-> Undefined],
      [search |-> <<"x">>, skip |-> Undefined],
      [search |-> <<"x"," ">>, skip |-> <<"0">>],
      [search |-> <<"x">>, skip |-> <<"1">>] }

\* the answers of the AniList search
SearchAnswers ==
    { SearchError,
      SearchNoList,
      SearchReplyOf(<< Found(7, Media("TV", TitleX, Null)) >>),
      SearchReplyOf(<< Found(7, Media("TV", TitleX, Null)),
                       Found(8, Media("MOVIE", Null, TitleY)) >>) }

MetaTicks == {ANILIST_CACHE_TTL}

NextMeta ==
    \/ \E type \in {"series", "movie"}, extra \in CatalogExtras : CatalogRoute(type, extra)
    \/ \E answer \in SearchAnswers : SearchReply(answer)
    \/ StreamRouteAnilist(CacheId, [bad |-> FALSE, rdKey |-> KeyNord])
    \/ \E media \in CacheMedias : DetailsReply(media)
    \/ \E feed \in CacheFeeds : SearchSettledAnilist(feed, Len(feed), {})
    \/ RequestOver
    \/ \E d \in MetaTicks : Tick(d)
    \/ Sweep

SpecMeta == Init /\ [][NextMeta]_vars

\* the clock steps of the resolver specification: half a minute, and a day less a minute
NameTicks == {30 * 1000, NAME_CACHE_TTL - 60 * 1000}

NextNames ==
    \/ \E id \in ResolveIds : resolveAnimeNames(id[1], id[2])
    \/ \E n \in DOMAIN res, a \in KitsuAnswers : KitsuReply(n, a)
    \/ \E n \in DOMAIN res, a \in CinemetaAnswers : CinemetaReply(n, a)
    \/ \E n \in DOMAIN res, a \in AniListAnswers : AniListReply(n, a)
    \/ \E d \in NameTicks : Tick(d)
    \/ Sweep

SpecNames == Init /\ [][NextNames]_vars


(***************************************************************************)
(* Properties of the debrid specification.                                 *)
(***************************************************************************)
\* the conversion cache holds an entry for (magnet, apiKey) younger than one hour
ValidRdEntry(magnet, apiKey) ==
    /\ MapHas(rdCache, rdCacheKey(magnet, apiKey))
    /\ now - rdCache[rdCacheKey(magnet, apiKey)].timestamp < 60 * 60 * 1000

\* C1: conversions coalesce: in no reachable state are two conversions for the
\* same (magnet, account) in flight at once, so one addMagnet call serves them all
C1_OneConversionPerKey ==
    \A i, j \in DOMAIN conv :
       (conv[i].magnet = conv[j].magnet /\ conv[i].key = conv[j].key) => i = j

\* C2: when a conversion has just returned failure (null) to its caller, the
\* conversion cache holds no entry a later request for the same key would be
\* served from, so the next request starts again at addMagnet
C2_FailureLeavesNoEntry ==
    (resp.kind \in {"error500", "dropped"} /\ resp.ret = Null)
        => ~ValidRdEntry(resp.magnet, resp.key)

\* C3: with a valid entry for (magnet, account) in the conversion cache, a
\* conversion request is answered by the cached url, no provider call is issued,
\* no conversion starts, and the cache is left as it was; a listing starts no
\* conversion for that pair either
C3_CacheHit ==
    [][\A m \in RdMagnets, k \in {KeyNord, KeyK1} :
          ValidRdEntry(m, k) =>
             /\ RdRoute(m, k) =>
                   /\ resp'.kind = "redirect"
                   /\ resp'.ret = rdCache[rdCacheKey(m, k)].url
                   /\ net' = {}
                   /\ conv' = conv
                   /\ rdCache' = rdCache
             /\ (\E ts \in RdListings, c \in ApiKeys : StreamListingAnilist(ts, c)) =>
                   /\ Call("addMagnet", m, k) \notin net'
                   /\ rdCache' = rdCache]_vars

\* C3 (witness): a request has been answered from an entry written earlier on
C3_Witness ==
    /\ resp.kind = "redirect"
    /\ net = {}
    /\ ValidRdEntry(resp.magnet, resp.key)
    /\ rdCache[rdCacheKey(resp.magnet, resp.key)].url = resp.ret
    /\ rdCache[rdCacheKey(resp.magnet, resp.key)].timestamp < now

\* C5: a stream listing answered for a configured account has started no
\* conversion: no provider call goes out with it
C5_ListingStartsNoConversion ==
    (resp.kind = "json" /\ hasRD(resp.key)) => net = {}

(***************************************************************************)
(* Properties of the stream specification.                                 *)
(***************************************************************************)
\* no debrid account: the key is absent, empty, or the sentinel
NoAccount(k) == k \in {Undefined, Null, <<>>, <<"n","o","r","d">>}

Candidates(streams) == {i \in DOMAIN streams : streams[i].name # "placeholder"}

\* every candidate of `streams` has the magnet, verbatim, of a record of `records`
\* with its name and seeders, as url
UrlsAreMagnets(streams, records) ==
    \A i \in Candidates(streams) :
       \E k \in DOMAIN records :
          /\ streams[i].url = records[k].magnet
          /\ streams[i].title.name = records[k].name
          /\ streams[i].title.seeders = SeedersOf(records[k])

\* C4: a step of a stream request made without an account issues no provider
\* call, starts no conversion and leaves the conversion cache alone, and every
\* candidate it answers with (and every candidate the kitsu variant builds from
\* the records a search merged) has its torrent's magnet, verbatim, as url
C4_NoAccountBypass ==
    [][NoAccount(req'.rdKey) =>
          /\ net' = {}
          /\ conv' = conv
          /\ rdCache' = rdCache
          /\ resp'.kind = "json" => /\ UrlsAreMagnets(resp'.streams, req'.found)
                                    /\ Cardinality(Candidates(resp'.streams)) = Len(req'.found)
          /\ variant = "kitsu" =>
                \A s \in DOMAIN req'.searches :
                   UrlsAreMagnets(streamsKitsu(req'.searches[s].merged, req'.rdKey),
                                  req'.searches[s].merged)]_vars

\* C4 (witness): a listing was answered without an account, with a candidate
C4_Witness ==
    /\ resp.kind = "json"
    /\ resp.key = KeyNord
    /\ Len(req.found) >= 2
    /\ Candidates(resp.streams) = DOMAIN resp.streams
    /\ \A i \in DOMAIN resp.streams : resp.streams[i].url = req.found[i].magnet
    /\ net = {}

\* C6: every stream request is answered with a list that is not empty
C6_NeverEmpty ==
    resp.kind = "json" => resp.streams # <<>>

HashesOf(records) == {extractHash(records[i].magnet) : i \in DOMAIN records} \ {<<>>}

\* `out` has one record for each hash of `inputs`, and nothing else
OnePerHash(out, inputs) ==
    /\ HashesOf(out) = HashesOf(inputs)
    /\ \A i \in DOMAIN out : extractHash(out[i].magnet) # <<>>
    /\ \A i, j \in DOMAIN out :
          extractHash(out[i].magnet) = extractHash(out[j].magnet) => i = j
    /\ \A i \in DOMAIN out : \E k \in DOMAIN inputs : out[i] = inputs[k]

Orderings(n) == {f \in [1..n -> 1..n] : \A i, j \in 1..n : f[i] = f[j] => i = j}

\* C7: the merged list of every search that ran, and the list merged from two
\* titles' results, has exactly one record per hash of its inputs, records
\* without a hash being dropped; and merging any permutation of a search's
\* inputs gives the same set of hashes
C7_OneRecordPerHash ==
    /\ \A s \in DOMAIN req.searches :
          /\ OnePerHash(req.searches[s].merged, req.searches[s].inputs)
          /\ \A f \in Orderings(Len(req.searches[s].inputs)) :
                HashesOf(dedupByHash([i \in DOMAIN req.searches[s].inputs |->
                                         req.searches[s].inputs[f[i]]]))
                   = HashesOf(req.searches[s].merged)
    /\ Len(req.r) = 2 => OnePerHash(req.found, req.r[1] \o req.r[2])

\* C7 (witness): a search merged three records, two of them with one hash
\* written in different case and one without a hash, into one
C7_Witness ==
    \E s \in DOMAIN req.searches :
       LET in == req.searches[s].inputs IN
       /\ Len(in) = 3
       /\ Len(req.searches[s].merged) = 1
       /\ \E i, j \in DOMAIN in :
             /\ in[i].magnet # in[j].magnet
             /\ in[i].magnet # Undefined /\ in[j].magnet # Undefined
             /\ extractHash(in[i].magnet) = extractHash(in[j].magnet)
             /\ extractHash(in[i].magnet) # <<>>
       /\ \E i \in DOMAIN in : in[i].magnet # Undefined /\ extractHash(in[i].magnet) = <<>>

\* C8: the candidates of a listing are ranked: 1080p names first, then by
\* release group priority, then by seeders, non-increasing
C8_Ranked ==
    resp.kind = "json" =>
       \A i, j \in Candidates(resp.streams) :
          i < j =>
             LET a == resp.streams[i].title
                 b == resp.streams[j].title
             IN /\ is1080p(b.name) => is1080p(a.name)
                /\ (is1080p(a.name) <=> is1080p(b.name)) =>
                      /\ getGroupPriority(a.name) <= getGroupPriority(b.name)
                      /\ getGroupPriority(a.name) = getGroupPriority(b.name) =>
                            a.seeders >= b.seeders

(***************************************************************************)
(* Properties of the resolver specification.                               *)
(***************************************************************************)
Day == 24 * 60 * 60 * 1000
Minute == 60 * 1000

\* the name cache holds a result for (type, fullId)
Stored(id) == MapHas(nameCache, nameCacheKey(id[1], id[2]))
StoredEntry(id) == nameCache[nameCacheKey(id[1], id[2])]

\* the step is a call of resolveAnimeNames answered from the entry e, with no
\* collaborator asked and nothing changed
ServedFrom(id, e) ==
    /\ resp'.kind = "names"
    /\ resp'.magnet = id[2]
    /\ resp'.result = e.data
    /\ net' = {}
    /\ res' = res
    /\ nameCache' = nameCache

\* C9, as stated: a call made less than 24 h after a result was stored for the
\* same (type, fullId) asks no collaborator and returns that result, whatever
\* the result was
C9_AsStated ==
    [][\A id \in ResolveIds :
          (Stored(id) /\ now - StoredEntry(id).storedAt < Day
             /\ resolveAnimeNames(id[1], id[2]))
          => ServedFrom(id, StoredEntry(id))]_vars

\* C9, amended: a call made while the cache holds, for the same (type, fullId),
\* a result with at least one name stored less than 24 h ago, or an empty result
\* stored less than 60 s ago, asks no collaborator, returns that result and
\* leaves the cache as it is
C9_HitWithinWindow ==
    [][\A id \in ResolveIds :
          (/\ Stored(id)
           /\ \/ StoredEntry(id).data.names # <<>> /\ now - StoredEntry(id).storedAt < Day
              \/ StoredEntry(id).data.names = <<>> /\ now - StoredEntry(id).storedAt < Minute
           /\ resolveAnimeNames(id[1], id[2]))
          => ServedFrom(id, StoredEntry(id))]_vars

\* C9 (witness): a call was answered from a result with names stored almost a
\* day before
C9_Witness ==
    /\ resp.kind = "names"
    /\ net = {}
    /\ \E id \in ResolveIds :
          /\ resp.magnet = id[2]
          /\ Stored(id)
          /\ StoredEntry(id).data = resp.result
          /\ resp.result.names # <<>>
          /\ now - StoredEntry(id).storedAt >= Day - Minute
          /\ now - StoredEntry(id).storedAt < Day

\* the step is a call of resolveAnimeNames that asks its first collaborator
AsksAgain(id) ==
    /\ net' = {firstCall(id[1], id[2])}
    /\ res' = Append(res, NewResolve(id[1], id[2]))
    /\ resp' = NoResp

\* C10, as stated: a call that finds an empty result stored for its
\* (type, fullId) asks the collaborators again
C10_AsStated ==
    [][\A id \in ResolveIds :
          (Stored(id) /\ StoredEntry(id).data.names = <<>>
             /\ resolveAnimeNames(id[1], id[2]))
          => AsksAgain(id)]_vars

\* C10, amended: a call that finds an empty result stored 60 s ago or longer
\* asks the collaborators again; one that finds it stored less than 60 s ago is
\* served the empty result
C10_EmptyRetriedAfterAMinute ==
    [][\A id \in ResolveIds :
          (Stored(id) /\ StoredEntry(id).data.names = <<>>
             /\ resolveAnimeNames(id[1], id[2]))
          => IF now - StoredEntry(id).storedAt >= Minute
             THEN AsksAgain(id)
             ELSE ServedFrom(id, StoredEntry(id))]_vars

\* C10 (witness): the call started last found an empty result stored a minute
\* ago or longer, and asked its first collaborator
C10_Witness ==
    /\ res # <<>>
    /\ LET c == res[Len(res)]
           id == <<c.type, c.fullId>>
       IN /\ net = {firstCall(c.type, c.fullId)}
          /\ Stored(id)
          /\ StoredEntry(id).data.names = <<>>
          /\ now - StoredEntry(id).storedAt >= Minute

(***************************************************************************)
(* Further properties of the debrid specification.                         *)
(***************************************************************************)
\* C11: the caller of a click-through conversion waits 8 s at the most: no
\* /rd/ request is still unanswered, its conversion in flight, 8 s after it
\* was made
C11_CallerWaitBounded ==
    \A n \in DOMAIN conv :
       conv[n].origin = "route" => minElapsed(conv[n]) < 8 * 1000

SentWithinBounds(call) ==
    /\ call.sent.addMagnet <= 1
    /\ call.sent.info <= 1
    /\ call.sent.selectFiles <= 1
    /\ call.sent.poll <= POLL_ATTEMPTS

\* the call at index n has returned in this step
Returned(n) == \A m \in DOMAIN conv' : conv'[m].name # conv[n].name

\* the call at index n, its 10th poll sent, takes a step: it is left with the
\* exchange of that poll's link, or it has returned, with null unless that
\* exchange gave a url
AfterLastPoll(n) ==
    \/ /\ conv[n].pc = "poll"
       /\ \E m \in DOMAIN conv' : /\ conv'[m].name = conv[n].name
                                  /\ conv'[m].pc = "unrestrict"
                                  /\ conv'[m].sent = conv[n].sent
    \/ /\ Returned(n)
       /\ resp'.ret = Null \/ (conv[n].pc = "unrestrict" /\ resp'.ret \in Urls)

\* C12: a started conversion terminates, having sent at most one addMagnet,
\* one file listing, one selectFiles and 10 polls; an exchange that gives a
\* url ends it at once, and the 10th poll giving none ends it with failure
C12_BoundedConversion ==
    /\ [](\A n \in DOMAIN conv : SentWithinBounds(conv[n]))
    /\ \A name \in CallNames : InFlight(name) ~> ~InFlight(name)
    /\ [][\A n \in DOMAIN conv :
            /\ (Settle(n) /\ resp'.ret \in Urls) => Returned(n)
            /\ (Settle(n) /\ conv[n].sent.poll = POLL_ATTEMPTS) => AfterLastPoll(n)]_vars

C12_Witness ==
    \E n \in DOMAIN conv :
       /\ conv[n].sent = [addMagnet |-> 1, info |-> 1, selectFiles |-> 1, poll |-> POLL_ATTEMPTS]
       /\ conv[n].pc = "unrestrict"

(***************************************************************************)
(* Properties of the search specification.                                 *)
(***************************************************************************)
\* C13: a search some of whose queries failed still returns a list, made of
\* the records the other queries brought: merged, filtered and sorted
C13_FanOutTolerant ==
    \A s \in DOMAIN req.searches :
       LET r == req.searches[s] IN
       r.down # {} =>
          /\ ~r.threw
          /\ r.data = sortBySeeders(episodeFilter(dedupByHash(r.inputs), req.episode))

\* the list a search handed to its caller: none when it threw
ListReturned(r) == IF r.threw THEN <<>> ELSE r.data

InList(t, list) == \E i \in DOMAIN list : list[i] = t

NoSeasonMarker(name) ==
    ~hasSeasonTag(name) /\ ~includes(toLowerCase(name), <<"s","e","a","s","o","n">>)

\* C14: a search for season 1 (src/unnamed/part_000) returns every record
\* without a season marker that passed the merge and the episode filter, and
\* no record marked with a season
C14_SeasonFilter ==
    \A s \in DOMAIN req.searches :
       LET r == req.searches[s] IN
       (variant = "kitsu" /\ req.season = <<1>>) =>
          /\ \A i \in DOMAIN r.data :
                NoSeasonMarker(r.data[i].name) => InList(r.data[i], ListReturned(r))
          /\ \A i \in DOMAIN ListReturned(r) : NoSeasonMarker(ListReturned(r)[i].name)

\* the episode number as a name may write it: raw, or padded to two digits
Written(ep) == {String(ep), padStart2(String(ep))}

\* the number stands in the name at p as a number of its own
StandsAt(l, d, p) ==
    /\ MatchAt(l, d, p)
    /\ p = 1 \/ l[p - 1] \notin Digits
    /\ p + Len(d) = Len(l) + 1 \/ l[p + Len(d)] \notin Digits

AfterMarker(l, p) ==
    \/ p > 1 /\ l[p - 1] = "e"
    \/ p > 2 /\ l[p - 2] = "e" /\ l[p - 1] = "p"

\* the number next to a word boundary, an episode marker or a delimiter
StatedMatch(name, ep) ==
    LET l == toLowerCase(name) IN
    \E d \in Written(ep) : \E p \in DOMAIN l :
       /\ StandsAt(l, d, p)
       /\ p = 1 \/ ~IsWordChar(l[p - 1]) \/ AfterMarker(l, p)

\* the number right after a space, a dash, an underscore, an opening bracket
\* or parenthesis, or an episode marker
DelimitedMatch(name, ep) ==
    LET l == toLowerCase(name) IN
    \E d \in Written(ep) : \E p \in DOMAIN l :
       /\ StandsAt(l, d, p)
       /\ p > 1
       /\ l[p - 1] \in {" ", "-", "_", "[", "("} \/ AfterMarker(l, p)

\* the merged records of every search that ran
MergedRecords == UNION {{req.searches[s].merged[i] : i \in DOMAIN req.searches[s].merged}
                          : s \in DOMAIN req.searches}

\* record t of a search that ran was left in by the episode filter
Passed(t) ==
    \A s \in DOMAIN req.searches :
       InList(t, req.searches[s].merged) => InList(t, req.searches[s].data)

RangeHolds(name, ep) ==
    \E p \in DOMAIN name :
       /\ p + 4 <= Len(name)
       /\ \A k \in {p, p + 1, p + 3, p + 4} : name[k] \in Digits
       /\ name[p + 2] \in {"-", "~"}
       /\ DigitsValue(SubSeq(name, p, p + 1), 0) <= ep
       /\ ep <= DigitsValue(SubSeq(name, p + 3, p + 4), 0)

BatchWord(name) ==
    \/ includes(toLowerCase(name), <<"b","a","t","c","h">>)
    \/ includes(toLowerCase(name), <<"c","o","m","p","l","e","t","e">>)

\* C16: a record whose name carries a range NN-MM or NN~MM holding the
\* episode asked for, or the word "complete" or "batch", passes the episode
\* filter
C16_BatchRule ==
    \A t \in MergedRecords :
       (req.episode # <<>> /\ (RangeHolds(t.name, req.episode[1]) \/ BatchWord(t.name)))
          => Passed(t)

\* the markers of content that is no episode
NonEpisodeMarkers ==
    { <<"r","e","c","a","p">>, <<"o","v","a">>, <<"s","p","e","c","i","a","l">>, <<"p","v">>,
      <<"p","r","e","v","i","e","w">>, <<"t","r","a","i","l","e","r">>, <<"n","c","o","p">>,
      <<"n","c","e","d">>, <<"m","i","n","i"," ","a","n","i","m","e">> }

NonEpisode(name) == \E w \in NonEpisodeMarkers : includes(toLowerCase(name), w)

\* C17: no record whose name carries a marker of non-episode content is in
\* the list a search returned, nor among the records the candidates are made of
C17_NoJunkRecord ==
    /\ \A s \in DOMAIN req.searches :
          \A i \in DOMAIN ListReturned(req.searches[s]) :
             ~NonEpisode(ListReturned(req.searches[s])[i].name)
    /\ \A i \in DOMAIN req.found : ~NonEpisode(req.found[i].name)

\* buildSearchVariants(title, e) is its output without an episode, every
\* element followed by the padded and by the raw number, in order
Expanded(title, e) ==
    LET out == buildSearchVariants(title, e)
        base == buildSearchVariants(title, <<>>)
        pad == IF e[1] < 10 THEN <<"0">> \o String(e[1]) ELSE String(e[1])
    IN e # <<>> =>
          /\ Len(out) = 2 * Len(base)
          /\ \A i \in DOMAIN base : /\ out[2 * i - 1] = base[i] \o <<" ">> \o pad
                                    /\ out[2 * i] = base[i] \o <<" ">> \o String(e[1])

Verbatim(title) == InList(title, buildSearchVariants(title, <<>>))

\* C18 as stated: the output is the base variants, each with the padded and
\* the raw episode number, and the verbatim title is always a base variant
C18_AsStated ==
    \A s \in DOMAIN req.searches :
       Expanded(req.searches[s].title, req.episode) /\ Verbatim(req.searches[s].title)

\* C18: for every title searched, buildSearchVariants with an episode returns
\* each base variant with the padded and with the raw number, in base order,
\* and the search issues each of these queries; the verbatim title is a base
\* variant unless it is empty; "Kimetsu no Yaiba" with episode 1 gives
\* "Kimetsu no Yaiba 01" and "Kimetsu no Yaiba 1"
C18_VariantExpansion ==
    /\ \A s \in DOMAIN req.searches :
          LET r == req.searches[s] IN
          /\ Expanded(r.title, req.episode)
          /\ r.title # <<>> => Verbatim(r.title)
          /\ \A i \in DOMAIN buildSearchVariants(r.title, req.episode) :
                InList(buildSearchVariants(r.title, req.episode)[i], r.queries)
    /\ InList(TitleK \o <<" ","0","1">>, buildSearchVariants(TitleK, <<1>>))
    /\ InList(TitleK \o <<" ","1">>, buildSearchVariants(TitleK, <<1>>))

C18_Witness ==
    \E s \in DOMAIN req.searches :
       /\ req.searches[s].title = TitleK
       /\ req.episode = <<1>>
       /\ InList(TitleK \o <<" ","0","1">>, req.searches[s].queries)
       /\ InList(TitleK \o <<" ","1">>, req.searches[s].queries)

NoDuplicate(list) == \A i, j \in DOMAIN list : list[i] = list[j] => i = j

\* C19: for every title searched, the sequence buildSearchVariants returns
\* holds no query twice, and the search issues no query twice
C19_QueriesDistinct ==
    \A s \in DOMAIN req.searches :
       /\ NoDuplicate(buildSearchVariants(req.searches[s].title, req.episode))
       /\ NoDuplicate(req.searches[s].queries)

(***************************************************************************)
(* Further properties of the resolver specification.                       *)
(***************************************************************************)
\* C20: when Cinemeta gave the canonical name and the AniList search fails,
\* resolveAnimeNames returns what it returns when the search finds no
\* candidate: a resolution that holds the canonical name
C20_CanonicalNameKept ==
    [][\A n \in DOMAIN res : \A a \in AniListAnswers :
          (~a.ok /\ AniListReply(n, a)) =>
             /\ InList(res[n].name, resp'.result.names)
             /\ resp'.result = getNamesFromIMDb(res[n].type, res[n].name,
                                                [ok |-> TRUE, media |-> <<>>])]_vars

\* C21: when Cinemeta gave the canonical name and the AniList search gave
\* candidates, the resolved names start with the canonical name, and the
\* romaji title of the candidate gone by comes second
C21_CanonicalNameFirst ==
    [][\A n \in DOMAIN res : \A a \in AniListAnswers :
          (a.ok /\ a.media # <<>> /\ AniListReply(n, a)) =>
             /\ Len(resp'.result.names) >= 2
             /\ resp'.result.names[1] = res[n].name
             /\ resp'.result.names[2] = bestOf(res[n].type, a.media).title.romaji]_vars

\* the words of a title that count for the score: longer than two characters
ScoreWords(title) ==
    IF ~Truthy(title) THEN {}
    ELSE LET w == split(toLowerCase(title), " ")
         IN {w[i] : i \in {j \in DOMAIN w : Len(w[j]) > 2}}

\* the words of the canonical name a candidate's titles share with it
Matches(name, m) ==
    Cardinality(ScoreWords(name) \cap (ScoreWords(m.title.romaji) \cup ScoreWords(m.title.english)))

\* the candidate the stated rule selects: the best score among the candidates
\* of the asked format, else the best score of all, the earliest of equals;
\* the first candidate when no score is above 0.3
StatedBest(type, name, mediaList) ==
    LET total == Cardinality(ScoreWords(name))
        above(i) == 10 * Matches(name, mediaList[i]) > 3 * total
        wanted(m) == IF type = TypeSeries THEN m.format \in {"TV", "TV_SHORT"}
                     ELSE m.format = "MOVIE"
        hits == {i \in DOMAIN mediaList : wanted(mediaList[i])}
        pool == IF hits # {} THEN hits ELSE DOMAIN mediaList
        top == CHOOSE i \in pool :
                  \A j \in pool : \/ Matches(name, mediaList[j]) < Matches(name, mediaList[i])
                                  \/ (Matches(name, mediaList[j]) = Matches(name, mediaList[i])
                                      /\ i <= j)
    IN IF \E i \in DOMAIN mediaList : above(i) THEN mediaList[top] ELSE mediaList[1]

\* C22: the names resolved from the candidates of the AniList search are those
\* of the candidate with the best word-overlap score among the candidates of
\* the asked format
C22_BestScoreSelected ==
    [][\A n \in DOMAIN res : \A a \in AniListAnswers :
          (a.ok /\ a.media # <<>> /\ AniListReply(n, a)) =>
             resp'.result = getNamesFromIMDb(res[n].type, res[n].name,
                               [ok |-> TRUE,
                                media |-> << StatedBest(res[n].type, res[n].name, a.media) >>])]_vars

\* the resolutions resolveAnimeNames has returned or stored, each with the
\* identifier it stands for
Resolutions ==
    {[id |-> i[2], result |-> StoredEntry(i).data] : i \in {j \in ResolveIds : Stored(j)}}
    \cup (IF resp.kind = "names" THEN {[id |-> resp.magnet, result |-> resp.result]} ELSE {})

CleanName(n) == isLatinScript(n) /\ ~isJunkTitle(n)

FromKitsu(id) == startsWith(id, <<"k","i","t","s","u",":">>)

Fresh(cache, k, ttl) == k \in DOMAIN cache /\ now - cache[k].timestamp < ttl
Stale(cache, k, ttl) == k \in DOMAIN cache /\ now - cache[k].timestamp >= ttl

CacheRdKey == rdCacheKey(MagnetA, KeyK1)
CacheNameKey == nameCacheKey(CacheResolveId[1], CacheResolveId[2])

\* the step is a read of the conversion cache and honours the TTL
RdReadHonoursTTL ==
    RdRoute(MagnetA, KeyK1) =>
       IF Fresh(rdCache, CacheRdKey, RD_CACHE_TTL)
       THEN resp'.kind = "redirect" /\ resp'.ret = rdCache[CacheRdKey].url /\ conv' = conv
       ELSE Len(conv') = Len(conv) + 1 /\ net' = {Call("addMagnet", MagnetA, KeyK1)}

\* the step is a read of the title cache and honours the TTL
NameReadHonoursTTL ==
    resolveAnimeNames(CacheResolveId[1], CacheResolveId[2]) =>
       IF Fresh(nameCache, CacheNameKey, NAME_CACHE_TTL)
       THEN ServedFrom(CacheResolveId, nameCache[CacheNameKey])
       ELSE AsksAgain(CacheResolveId)

\* the step is a read of the metadata cache and honours the TTL
DetailsReadHonoursTTL ==
    (req.pc = "none" /\ req'.pc # "none") =>
       IF Fresh(anilistDetailsCache, detailsKey(CacheId), ANILIST_DETAILS_TTL)
       THEN req'.pc # "details"
            /\ req'.titles = titlesOf(anilistDetailsCache[detailsKey(CacheId)].data)
       ELSE req'.pc = "details"

\* the step reads the torrent search cache for the titles of a request, and
\* honours the TTL: the titles with a fresh entry are answered from it, the
\* others are searched for
SearchReadHonoursTTL ==
    (req.pc \in {"none", "details"} /\ req'.pc \in {"search", "done"} /\ req'.titles # <<>>) =>
       \A i \in DOMAIN req'.titles :
          LET k == nyaaCacheKey(req'.titles[i], req'.episode, <<>>)
          IN IF Fresh(nyaaCache, k, NYAA_CACHE_TTL)
             THEN ~InList(req'.titles[i], req'.names)
                  /\ (req'.pc = "done" => req'.r[i] = nyaaCache[k].data)
             ELSE InList(req'.titles[i], req'.names) /\ req'.pc = "search"

ReadsHonourTTL ==
    /\ RdReadHonoursTTL
    /\ NameReadHonoursTTL
    /\ DetailsReadHonoursTTL
    /\ SearchReadHonoursTTL

\* the step ends a read that fell through to the collaborators
RdReadEnds == conv # <<>> /\ conv' = <<>>
NameReadEnds == res # <<>> /\ res' = <<>>
DetailsReadEnds == req.pc = "details" /\ req'.pc # "details"
SearchReadEnds == req.pc = "search" /\ req'.pc = "done"

\* a read that fell through has left a new entry, stamped at the time it ended
RdWritten == rdCache'[CacheRdKey] = [url |-> resp'.ret, timestamp |-> now]
NameWritten ==
    /\ nameCache'[CacheNameKey].data = resp'.result
    /\ nameCache'[CacheNameKey].storedAt = now
DetailsWritten ==
    /\ anilistDetailsCache'[detailsKey(CacheId)].timestamp = now
    /\ titlesOf(anilistDetailsCache'[detailsKey(CacheId)].data) = req'.titles
SearchWritten ==
    \A s \in DOMAIN req.names :
       nyaaCache'[nyaaCacheKey(req.names[s], req.episode, <<>>)]
          = [data |-> req'.searches[Len(req.searches) + s].data, timestamp |-> now]

SweptFrom(cache, after, ttl) ==
    /\ DOMAIN after = {k \in DOMAIN cache : ~Stale(cache, k, ttl)}
    /\ \A k \in DOMAIN after : after[k] = cache[k]

\* the step takes out of the cache the entries of age > ttl and no other, and
\* leaves the others as they are
SweptOlder(cache, after, ttl) ==
    /\ DOMAIN after = {k \in DOMAIN cache : now - cache[k].timestamp <= ttl}
    /\ \A k \in DOMAIN after : after[k] = cache[k]

\* C25 as stated: a run of the sweep removes from each cache every entry that
\* is invalid at that moment (age >= TTL), removes no entry a read would take
\* for valid, and leaves value and timestamp of the others unchanged
C25_AsStated ==
    [][Sweep => /\ SweptFrom(nameCache, nameCache', NAME_CACHE_TTL)
                /\ SweptFrom(nyaaCache, nyaaCache', NYAA_CACHE_TTL)
                /\ SweptFrom(rdCache, rdCache', RD_CACHE_TTL)
                /\ SweptFrom(anilistDetailsCache, anilistDetailsCache',
                             ANILIST_DETAILS_TTL)]_vars

\* C25: a run of the sweep removes from each cache every entry older than the
\* TTL (age > TTL), removes no other entry, so none a read would take for
\* valid, and leaves value and timestamp of the others unchanged; an entry of
\* age exactly TTL, invalid for a read, stays
C25_SweepOlderThanTTL ==
    [][Sweep => /\ SweptOlder(nameCache, nameCache', NAME_CACHE_TTL)
                /\ SweptOlder(nyaaCache, nyaaCache', NYAA_CACHE_TTL)
                /\ SweptOlder(rdCache, rdCache', RD_CACHE_TTL)
                /\ SweptOlder(anilistDetailsCache, anilistDetailsCache',
                              ANILIST_DETAILS_TTL)
                /\ \A k \in DOMAIN nameCache :
                      Fresh(nameCache, k, NAME_CACHE_TTL) => k \in DOMAIN nameCache'
                /\ \A k \in DOMAIN rdCache :
                      Fresh(rdCache, k, RD_CACHE_TTL) => k \in DOMAIN rdCache']_vars

\* C25 (witness): the sweep has taken the metadata entry of the request just
\* answered, and has left a conversion entry that is exactly one TTL old
C25_Witness ==
    /\ req.pc = "done"
    /\ req.titles # <<>>
    /\ anilistDetailsCache = EmptyMap
    /\ CacheRdKey \in DOMAIN rdCache
    /\ now - rdCache[CacheRdKey].timestamp = RD_CACHE_TTL

(***************************************************************************)
(* Properties of the stream request with timeouts.                         *)
(***************************************************************************)
\* C26: every outbound call carries a fixed timeout, so a stream request that
\* waits for a collaborator (title resolution, metadata lookup, torrent-index
\* queries) is answered in the end, even when the collaborator never responds
C26_RequestCompletes ==
    (req.pc \in {"names", "details", "search"}) ~> (req.pc = "done")

(***************************************************************************)
(* The order of the list a search returns.                                 *)
(***************************************************************************)
\* orders n concurrent queries can complete in: every rotation of the order
\* they were issued in, and of the reverse order
CompletionOrders(n) ==
    {[k \in 1..n |-> ((k + d - 1) % n) + 1] : d \in 0..(n - 1)}
    \cup {[k \in 1..n |-> n - ((k + d - 1) % n)] : d \in 0..(n - 1)}

\* C27: for fixed per-query responses of the torrent index, the list a search
\* returns (which record is kept for each hash, and the order of the records)
\* is the same for every order in which the concurrent queries complete; and
\* the list of a request for two titles is the merge of the two lists in the
\* order of the titles
C27_DeterministicOrder ==
    /\ \A s \in DOMAIN req.searches :
          LET r == req.searches[s] IN
          \A order \in CompletionOrders(Len(r.responses)) :
             LET again == searchResult(allSettled(r.responses, order), req.episode, req.season)
             IN again.merged = r.merged /\ again.data = r.data
    /\ (variant = "anilist" /\ req.pc = "done" /\ Len(req.r) = 2)
          => req.found = mergeTitles(req.r[1], req.r[2])

\* C27 (witness): a search has returned a record although a query later in the
\* list answered with another record of the same hash
C27_Witness ==
    \E s \in DOMAIN req.searches :
       LET r == req.searches[s] IN
       /\ ~r.threw
       /\ \E a, b \in DOMAIN r.responses :
             /\ a < b
             /\ \E i \in DOMAIN r.responses[a].records, j \in DOMAIN r.responses[b].records :
                   LET ta == r.responses[a].records[i]
                       tb == r.responses[b].records[j]
                   IN /\ ta # tb
                      /\ extractHash(ta.magnet) = extractHash(tb.magnet)
                      /\ extractHash(ta.magnet) # <<>>
                      /\ InList(ta, r.data)
                      /\ ~InList(tb, r.data)

(***************************************************************************)
(* Properties of the listing specification.                                *)
(***************************************************************************)
\* the record is among the candidates of the listing
Shown(t, streams) ==
    \E i \in Candidates(streams) :
       streams[i].title.name = t.name /\ streams[i].title.seeders = SeedersOf(t)

\* C28: the stream candidates returned for one request are never more than
\* the fixed bound (at most 20), and they are the top-ranked ones: no record
\* found and left out ranks before a record shown
C28_CandidateCap ==
    (resp.kind = "json" /\ req.pc = "done") =>
       /\ Cardinality(Candidates(resp.streams)) <= 20
       /\ \A i, j \in DOMAIN req.found :
             (HasMagnet(req.found[i]) /\ HasMagnet(req.found[j])
                /\ Shown(req.found[i], resp.streams) /\ ~Shown(req.found[j], resp.streams))
             => rankCompare(req.found[i], req.found[j]) <= 0

(***************************************************************************)
(* The placeholders of handleStreamRequest (src/unnamed/part_000).          *)
(***************************************************************************)
\* C29: when title resolution yields no names the request is answered with
\* exactly one placeholder entry and no torrent-index query is issued; when
\* names resolve and no torrent is found it is answered with exactly one
\* placeholder entry of another message; neither case raises an exception
C29_PlaceholderOutcomes ==
    (variant = "kitsu" /\ req.pc = "done" /\ resp.kind = "json") =>
       /\ req.names = <<>> =>
             /\ resp.streams = << Placeholder("names") >>
             /\ req.searches = <<>>
       /\ (req.names # <<>> /\ req.found = <<>>) =>
             /\ Len(resp.streams) = 1
             /\ Candidates(resp.streams) = {}
             /\ resp.streams[1] # Placeholder("names")
             /\ \A s \in DOMAIN req.searches : ~req.searches[s].threw

(***************************************************************************)
(* Properties of the accounts specification.                               *)
(***************************************************************************)
\* the step is the return of the call at index n with a failure
FailsAt(n) ==
    /\ conv' = Remove(conv, n)
    /\ resp'.ret = Null
    /\ resp'.kind \in {"error500", "dropped"}
    /\ resp'.magnet = conv[n].magnet
    /\ resp'.key = conv[n].key

\* after the step a request for (magnet, key) is served from the cache or
\* starts a conversion
CanConvert(magnet, key) ==
    IF rdCacheKey(magnet, key) \in DOMAIN rdCache'
         /\ now' - rdCache'[rdCacheKey(magnet, key)].timestamp < RD_CACHE_TTL
    THEN rdCache'[rdCacheKey(magnet, key)].url \in Urls
    ELSE rdCacheKey(magnet, key) \notin DOMAIN rdCache'
            \/ rdCache'[rdCacheKey(magnet, key)] = rdCache[rdCacheKey(magnet, key)]

\* C30: a failed conversion for key k changes no conversion-cache entry, of k
\* or of any other key, leaves every other cache unchanged, leaves the other
\* conversions under way as they are, and leaves nothing behind that keeps a
\* later request for k or for another key from a conversion
C30_FailureIsolated ==
    [][\A n \in DOMAIN conv :
          FailsAt(n) =>
             /\ rdCache' = rdCache
             /\ UNCHANGED <<nyaaCache, nameCache, anilistDetailsCache>>
             /\ \A m \in DOMAIN conv' : \E o \in DOMAIN conv : o # n /\ conv'[m] = conv[o]
             /\ \A k \in {KeyK1, KeyK2} : CanConvert(MagnetA, k)]_vars

\* C30 (witness): a conversion for one account has just failed; the entry of
\* the other account is in the cache, and another conversion for the account
\* of the failure is under way, its link in hand
C30_Witness ==
    /\ resp.kind = "error500"
    /\ resp.key = KeyK1
    /\ rdCacheKey(MagnetA, KeyK2) \in DOMAIN rdCache
    /\ rdCacheKey(MagnetA, KeyK1) \notin DOMAIN rdCache
    /\ \E n \in DOMAIN conv : conv[n].key = KeyK1 /\ conv[n].pc = "unrestrict"

(***************************************************************************)
(* The search cache.                                                       *)
(***************************************************************************)
\* the step ends searches, and each of them has left its list in the search
\* cache, under its title, episode and season, stamped with the time
SearchesStored ==
    (req.pc = "search" /\ Len(req'.searches) > Len(req.searches)) =>
       \A s \in (Len(req.searches) + 1)..Len(req'.searches) :
          LET r == req'.searches[s]
              k == nyaaCacheKey(r.title, req.episode, req.season)
          IN /\ k \in DOMAIN nyaaCache'
             /\ nyaaCache'[k] = [data |-> r.data, timestamp |-> now]

\* C31: every search that has run stores its list under (title, episode,
\* season), and a search for a (title, episode, season) stored less than 30
\* minutes before issues no query of the torrent index and returns the list
\* stored
C31_SearchCached ==
    [][SearchesStored /\ SearchReadHonoursTTL]_vars

(***************************************************************************)
(* The two titles of a request.                                            *)
(***************************************************************************)
\* the titles of the request, the primary one first
TitlesOfRequest == IF variant = "kitsu" THEN req.names ELSE req.titles

SearchedFor(t) == \E s \in DOMAIN req.searches : req.searches[s].title = t

\* the list the search for t returned
ReturnedFor(t) ==
    ListReturned(req.searches[CHOOSE s \in DOMAIN req.searches : req.searches[s].title = t])

\* C32: the secondary title is searched if and only if the primary title
\* yields no record after the filters (and the secondary differs from the
\* primary); whenever both have been searched the list returned is the merge
\* of both results, no infoHash occurring twice
C32_SecondaryFallback ==
    (req.pc = "done" /\ Len(TitlesOfRequest) >= 2
       /\ Truthy(TitlesOfRequest[2]) /\ TitlesOfRequest[2] # TitlesOfRequest[1]
       /\ SearchedFor(TitlesOfRequest[1]))
    => /\ SearchedFor(TitlesOfRequest[2]) <=> ReturnedFor(TitlesOfRequest[1]) = <<>>
       /\ SearchedFor(TitlesOfRequest[2]) =>
             LET both == ReturnedFor(TitlesOfRequest[1]) \o ReturnedFor(TitlesOfRequest[2])
             IN /\ \A i, j \in DOMAIN req.found :
                      extractHash(req.found[i].magnet) = extractHash(req.found[j].magnet)
                         => i = j
                /\ \A i \in DOMAIN req.found : InList(req.found[i], both)
                /\ HashesOf(req.found) = HashesOf(both) \ {<<>>}

(***************************************************************************)
(* Properties of the identifier specification.                             *)
(***************************************************************************)
\* the number a segment stands for: that of its leading digits, white space
\* skipped; 1 for a segment that is missing, does not begin with a digit, or
\* stands for zero
SegmentNumber(parts, i) ==
    LET t == IF i <= Len(parts) THEN TrimLeft(parts[i]) ELSE <<>>
        e == SkipWhile(t, 1, Digits)
        n == DigitsValue(SubSeq(t, 1, e - 1), 0)
    IN IF e = 1 \/ n = 0 THEN 1 ELSE n

\* C33: parseEpisodeAndSeason maps 'kitsu:ID:E' to season 1 and episode E,
\* 'ttID:S:E' to season S and episode E, 'ttID:E' to season 1 and episode E; a
\* missing, non-numeric or zero segment yields 1, so season and episode are
\* always integers >= 1
C33_IdentifierParsing ==
    resp.kind = "parsed" =>
       LET parts == split(resp.magnet, ":")
           season == resp.ret[1]
           episode == resp.ret[2]
       IN /\ season >= 1 /\ episode >= 1
          /\ IF startsWith(resp.magnet, <<"k","i","t","s","u",":">>)
             THEN season = 1 /\ episode = SegmentNumber(parts, 3)
             ELSE IF Len(parts) >= 3
             THEN season = SegmentNumber(parts, 2) /\ episode = SegmentNumber(parts, 3)
             ELSE season = 1 /\ episode = SegmentNumber(parts, 2)

(***************************************************************************)
(* Requests without an episode.                                            *)
(***************************************************************************)
\* the request asks for no episode: its identifier has no episode segment
\* (kitsu), or the work it names is a movie, for which the handler passes
\* ep = null (anilist)
NoEpisodeAsked ==
    /\ req.pc \in {"search", "done"}
    /\ IF variant = "kitsu"
       THEN LET parts == split(req.id, ":")
            IN Len(parts) < (IF startsWith(req.id, <<"k","i","t","s","u",":">>) THEN 3 ELSE 2)
       ELSE req.titles # <<>> /\ req.episode = <<>>

\* the queries of a title that carry no episode number
NameOnlyQueries(title) ==
    LET qs == searchQueries(title, <<>>) IN {qs[j] : j \in DOMAIN qs}

\* the titles whose searches are awaited
AwaitedTitles == IF variant = "kitsu" THEN << req.names[req.idx] >> ELSE req.names

\* C34: for a stream request whose identifier carries no episode (a movie), no
\* episode number is appended to any query and the episode filter removes no
\* record from the search result
C34_NoEpisodeNoFilter ==
    NoEpisodeAsked =>
       /\ \A s \in DOMAIN req.pending : \A j \in DOMAIN req.pending[s] :
             req.pending[s][j] \in NameOnlyQueries(AwaitedTitles[s])
       /\ \A s \in DOMAIN req.searches :
             /\ \A j \in DOMAIN req.searches[s].queries :
                   req.searches[s].queries[j] \in NameOnlyQueries(req.searches[s].title)
             /\ Len(req.searches[s].data) = Len(req.searches[s].merged)

(***************************************************************************)
(* Properties of the isolation specification.                              *)
(***************************************************************************)
\* this step answers the /rd/ request for the pair p from the conversion cache
AnsweredFromCache(p) ==
    /\ conv' = conv
    /\ resp' # resp
    /\ resp'.kind = "redirect" /\ resp'.magnet = p[1] /\ resp'.key = p[2]

\* the pairs whose conversions write the entry a request for p reads
SameEntry(p) == {o \in IsolationPairs : rdCacheKey(o[1], o[2]) = rdCacheKey(p[1], p[2])}

\* C35: a conversion request for (magnet m, account key k) is answered only
\* from a cache entry of (m, k): no other pair (m', k') has the conversion-
\* cache key of (m, k)
C35_AccountIsolation ==
    [][\A p \in IsolationPairs : AnsweredFromCache(p) => SameEntry(p) = {p}]_vars

(***************************************************************************)
(* The retry window of the name cache.                                     *)
(***************************************************************************)
\* how long ago the result of id was stored
StoredFor(id) == now - StoredEntry(id).storedAt

\* C36: an empty title resolution stored in the name cache is served from the
\* cache to a request arriving less than 60 s after it was stored and is
\* treated as absent from 60 s on; a non-empty resolution is served to a
\* request arriving less than 24 h after it was stored
C36_RetryWindow ==
    [][\A id \in ResolveIds :
          (Stored(id) /\ resolveAnimeNames(id[1], id[2])) =>
             IF StoredEntry(id).data.names = <<>>
             THEN /\ StoredFor(id) < Minute => ServedFrom(id, StoredEntry(id))
                  /\ StoredFor(id) >= Minute => AsksAgain(id)
             ELSE StoredFor(id) < Day => ServedFrom(id, StoredEntry(id))]_vars

\* C36 (witness): a request arriving 30 s after an empty resolution was stored
\* has been served that resolution from the cache
C36_Witness ==
    /\ resp.kind = "names"
    /\ resp.result.names = <<>>
    /\ net = {}
    /\ \E id \in ResolveIds :
          /\ resp.magnet = id[2]
          /\ Stored(id)
          /\ StoredEntry(id).data = resp.result
          /\ StoredFor(id) = 30 * 1000

(***************************************************************************)
(* The records behind the candidates.                                      *)
(***************************************************************************)
\* the records found for the request that candidate i of the listing may
\* have been built from
SourcesOf(i) ==
    {j \in DOMAIN req.found :
        /\ req.found[j].name = resp.streams[i].title.name
        /\ SeedersOf(req.found[j]) = resp.streams[i].title.seeders
        /\ HasMagnet(req.found[j])}

\* C37: every stream candidate handleStreamRequest builds from a torrent comes
\* from a record with a magnet URI and a seeder count greater than zero;
\* records with zero or missing seeders never appear among the candidates
C37_CandidatesHaveSeeders ==
    (resp.kind = "json" /\ req.pc = "done") =>
       \A i \in Candidates(resp.streams) :
          /\ SourcesOf(i) # {}
          /\ \A j \in SourcesOf(i) : HasMagnetAndSeeders(req.found[j])

(***************************************************************************)
(* Properties of the metadata specification.                               *)
(***************************************************************************)
\* the cache holds no entry a lookup of the key would be served from
NotServed(cache, key, ttl) == ~isCacheValid(MapGet(cache, key), ttl)

\* this step ends the AniList call of getAniListDetails
DetailsLookupEnds == req.pc = "details" /\ req'.pc # "details"

\* ... with null: no answer, no Media in the answer, or an error
DetailsLookupFails == DetailsLookupEnds /\ req'.titles = <<>>

\* the entries of the details cache this step has written
DetailsEntriesWritten ==
    {k \in DOMAIN anilistDetailsCache' :
        k \notin DOMAIN anilistDetailsCache \/ anilistDetailsCache'[k] # anilistDetailsCache[k]}

\* this step starts a request
RequestStarts == req.pc = "none" /\ req'.pc # "none"

\* C38: getAniListDetails writes a cache entry only for a non-null result;
\* neither getAniListDetails nor searchAniList writes anything when its call
\* errors, so after a failed lookup the cache is as it was, with nothing to
\* serve the key from, and a request that finds nothing to be served from
\* calls the service again
C38_OnlySuccessCached ==
    [][/\ \A k \in DetailsEntriesWritten : ~anilistDetailsCache'[k].data.isNull
       /\ DetailsLookupFails =>
             /\ UNCHANGED metaVars
             /\ NotServed(anilistDetailsCache, detailsKey(req.id), ANILIST_DETAILS_TTL)
       /\ SearchReply(SearchError) =>
             /\ UNCHANGED metaVars
             /\ NotServed(anilistSearchCache, searchCacheKey(req.search), ANILIST_CACHE_TTL)
       /\ (RequestStarts /\ matchAnilistId(req'.id) # <<>> /\ req'.rdKey # Undefined
             /\ NotServed(anilistDetailsCache, detailsKey(req'.id), ANILIST_DETAILS_TTL))
          => req'.pc = "details"
       /\ (RequestStarts /\ req'.search # <<>>
             /\ NotServed(anilistSearchCache, searchCacheKey(req'.search), ANILIST_CACHE_TTL))
          => req'.pc = "catalog"]_vars

\* C38 (witness): the details lookup of the request has just failed, and the
\* entry stored for its key half an hour before, no longer valid, is still
\* what the cache holds
C38_Witness ==
    /\ req.pc = "done"
    /\ matchAnilistId(req.id) # <<>>
    /\ req.titles = <<>>
    /\ resp.kind = "json"
    /\ MapHas(anilistDetailsCache, detailsKey(req.id))
    /\ now - anilistDetailsCache[detailsKey(req.id)].timestamp = ANILIST_DETAILS_TTL

====
